---- MODULE Spec2Model ----
(***************************************************************************)
(* Model of the shader graph subsystem of eray: the flat Graph<State>      *)
(* container (src/lib/shader/graph.rs), its validator                      *)
(* (Graph<Unvalidated>::validate) and its execution engine                 *)
(* (Graph<Validated>::run / run_node).                                     *)
(*                                                                         *)
(* Rust HashMaps iterate in an unspecified order.  Every map that the code *)
(* iterates is iterated here in an order chosen per map and per call by    *)
(* the function `ord`: any order for maps of up to three entries, the      *)
(* ascending or the descending name order for larger ones.                 *)
(***************************************************************************)
EXTENDS Integers, Sequences, FiniteSets, TLC

VARIABLES
    graph,      \* the Graph value the program holds
    phase,      \* its type state: "Unvalidated", "Validated", "Dropped", "Panicked"
    orig,       \* the graph as constructed (history)
    vres,       \* result of the validate call: Ok(graph) or an Error
    vseen,      \* the `visited` list of the validate call when it returned
    vcalls,     \* number of validate calls made on the graph value
    runs,       \* number of run calls made
    rres,       \* result of the last run call
    rlog,       \* shader invocations of the last run call, in order
    rins,       \* the `inputs` snapshot each of these invocations was given
    selected_outputs,   \* Material.selected_outputs
    recompute,          \* Material.recompute
    debug_assertions,   \* whether the build has debug assertions
    mlog,       \* the calls made on the material, in order
    prevOut,    \* self.outputs as it was when the last run call started
    prevRes,    \* result of the run call before the last one
    ranPhase,   \* the phase the graph was in when run was last called
    source,     \* the parse tree of the .eray program compiled, if any
    cres,       \* result of parse_program on source
    call        \* the last call of a setter or of a pure function

vars ==
    <<graph, phase, orig, vres, vseen, vcalls, runs, rres, rlog, rins,
      prevOut, prevRes, ranPhase, source, cres, call, selected_outputs,
      recompute, debug_assertions, mlog>>

\* the fields of a Material other than its graph, and the calls made on it
material_vars == <<selected_outputs, recompute, debug_assertions, mlog>>

----------------------------------------------------------------------------
(* Bounds of the model *)

\* most node-to-node links of a generated wiring graph
MaxEdges == 3
\* most run calls made on one graph
MaxRuns == 2
\* recursion depth at which run_node is cut off and reported as "diverged"
MaxDepth == 8
\* most calls made on one material
MaxCalls == 3

----------------------------------------------------------------------------
(* Option<T>, SocketValue, SocketType, SocketRef *)

None == <<>>
Some(v) == <<v>>

\* SocketValue: one variant per kind, each holding an Option
SocketValue(kind, opt) == [kind |-> kind, val |-> opt]

\* SocketValue::is_none
is_none(value) == value.val = None

\* the default payload of a kind: 0. for Value, Image::default() for images
DefaultOf(kind) == 0

\* SocketValue::set_default
set_default(value) == [value EXCEPT !.val = Some(DefaultOf(value.kind))]

\* From<SocketType> for SocketValue: the unset value of that kind
FromType(kind) == SocketValue(kind, None)

\* From<SocketValue> for SocketType
TypeOf(value) == value.kind

NoRef == [tag |-> "None", node |-> "", name |-> ""]
NodeRef(id, name) == [tag |-> "Node", node |-> id, name |-> name]
GraphRef(name) == [tag |-> "Graph", node |-> "", name |-> name]

----------------------------------------------------------------------------
(* Graph, GraphNode, ImportedNode *)

EmptyMap == <<>>

\* Graph<State>: inputs, outputs, nodes (the state tag is the variable phase)
Graph(ins, outs, nodes) == [inputs |-> ins, outputs |-> outs, nodes |-> nodes]

EmptyGraph == Graph(EmptyMap, EmptyMap, EmptyMap)

\* Node::Graph(GraphNode {inputs, outputs, shader})
GraphNode(ins, outs, shader) ==
    [kind |-> "Graph", name |-> "", inputs |-> ins, outputs |-> outs,
     shader |-> shader, inner |-> EmptyGraph]

\* Node::Imported(ImportedNode {name, inputs, inner})
ImportedNode(name, ins, inner) ==
    [kind |-> "Imported", name |-> name, inputs |-> ins, outputs |-> EmptyMap,
     shader |-> "", inner |-> inner]

\* From<(T, Graph)> for ImportedNode: one unlinked input per graph input
ImportedFrom(name, inner) ==
    ImportedNode(name,
                 [n \in DOMAIN inner.inputs |->
                     [ref |-> NoRef, type |-> TypeOf(inner.inputs[n])]],
                 inner)

\* Node::inputs
inputs(node) == node.inputs

\* Node::outputs: a GraphNode's own outputs, an ImportedNode's sub-graph outputs
outputs(node) ==
    IF node.kind = "Graph"
    THEN node.outputs
    ELSE [n \in DOMAIN node.inner.outputs |-> node.inner.outputs[n].value]

----------------------------------------------------------------------------
(* HashMap iteration order *)

NameOrder ==
    <<"a", "add", "b", "c", "d", "e", "id", "in", "lhs", "rhs", "o1", "o2", "o3", "p",
      "q", "sum", "value", "x", "y", "z">>

Reverse(s) == [i \in 1..Len(s) |-> s[Len(s) + 1 - i]]

\* the six orders of three entries
Perms3 ==
    <<(<<1, 2, 3>>), (<<1, 3, 2>>), (<<2, 1, 3>>), (<<2, 3, 1>>), (<<3, 1, 2>>),
      (<<3, 2, 1>>)>>

\* the number of iteration orders the model distinguishes for a map of n entries
OrderCount(n) == IF n <= 1 THEN 1 ELSE IF n = 3 THEN 6 ELSE 2

OutKey(p) == <<"outputs", p>>
InKey(p, id) == <<"inputs", Append(p, id)>>
NodesKey(p) == <<"nodes", p>>

\* the entries of a map with key set D, in the order this call iterates them:
\* ord gives, per map, the number of one of the map's orders
Iter(D, key, ord) ==
    LET s == SelectSeq(NameOrder, LAMBDA n : n \in D)
        c == IF key \in DOMAIN ord THEN ord[key] ELSE 0
    IN  IF Len(s) <= 1 THEN s
        ELSE IF Len(s) = 3 THEN [i \in 1..3 |-> s[Perms3[c + 1][i]]]
        ELSE IF c % 2 = 1 THEN Reverse(s) ELSE s

Contains(s, e) == \E i \in 1..Len(s) : s[i] = e

----------------------------------------------------------------------------
(* SocketValue::try_convert *)

\* socket_value!: the kinds; each has an image kind `I<kind>`
Kinds == {"Value", "Vec2", "Vec3", "Color"}

\* the image kind [<I $name>] of a kind
ImageKind(kind) == "I" \o kind

\* socket_conversions!: per source kind, its target kinds
Conversions ==
    [src \in Kinds |->
        IF src = "Value" THEN <<"Vec2", "Vec3", "Color">>
        ELSE IF src = "Vec2" THEN <<"Value">>
        ELSE IF src = "Vec3" THEN <<"Value", "Color">>
        ELSE <<"Value", "Vec3">>]

\* the sum of the components of a vector
RECURSIVE SumSeq(_)
SumSeq(v) == IF v = <<>> THEN 0 ELSE Head(v) + SumSeq(Tail(v))

\* Into::into from src to dst: a scalar is repeated in every component, a
\* vector or color gives the mean of its components, Vec3 and Color exchange
\* their three components
Into(src, dst, p) ==
    IF src = "Value"
    THEN (IF dst = "Vec2" THEN <<p, p>> ELSE <<p, p, p>>)
    ELSE IF dst = "Value" THEN SumSeq(p) \div Len(p)
    ELSE p

\* Image::convert_image: the pixels mapped by the method
convert_image(img, src, dst) == [i \in DOMAIN img |-> Into(src, dst, img[i])]

\* Result<SocketValue, ()>
ConvertOk(value) == [tag |-> "Ok", value |-> value]
ConvertErr == [tag |-> "Err", value |-> <<>>]

\* the arms of try_convert for the i-th source kind of socket_conversions!
\* and a value of that kind or of its image kind
ConvertArm(value, target, src) ==
    IF value.kind = src
    THEN IF Contains(Conversions[src], target)
         THEN ConvertOk(SocketValue(target,
                  IF value.val = None THEN None
                  ELSE Some(Into(src, target, value.val[1]))))
         ELSE ConvertErr
    ELSE IF \E dst \in {Conversions[src][j] : j \in DOMAIN Conversions[src]} :
               target = ImageKind(dst)
    THEN ConvertOk(SocketValue(target,
             IF value.val = None THEN None
             ELSE Some(convert_image(value.val[1], src,
                           CHOOSE dst \in {Conversions[src][j] :
                                              j \in DOMAIN Conversions[src]} :
                               target = ImageKind(dst)))))
    ELSE ConvertErr

\* a faulty variant of try_convert: the target's image kind is accepted for a
\* plain value
TryConvertAnyImage(value, target) ==
    IF value.kind \in DOMAIN Conversions
       /\ \E dst \in {Conversions[value.kind][j] :
                         j \in DOMAIN Conversions[value.kind]} :
             target \in {dst, ImageKind(dst)}
    THEN ConvertOk(SocketValue(target, value.val))
    ELSE ConvertErr

\* SocketValue::try_convert
try_convert(value, target) ==
    IF \E src \in DOMAIN Conversions : value.kind \in {src, ImageKind(src)}
    THEN ConvertArm(value, target,
                    CHOOSE src \in DOMAIN Conversions :
                        value.kind \in {src, ImageKind(src)})
    ELSE ConvertErr

----------------------------------------------------------------------------
(* Error and Result<_, Error> *)

NoError ==
    [tag |-> "None", ok |-> EmptyGraph, output |-> "", during |-> <<>>,
     source_socket |-> "", target_socket |-> "", detected |-> ""]

\* Ok(value): value is a Graph<Validated> or a Node<Validated>
Ok(value) == [NoError EXCEPT !.tag = "Ok", !.ok = value]

\* Error::UnlinkeUnsetdGraphOutput(Name)
UnlinkeUnsetdGraphOutput(output) ==
    [NoError EXCEPT !.tag = "UnlinkeUnsetdGraphOutput", !.output = output]

\* a faulty variant of Cycle: the two socket names are exchanged
CycleSwapped(during, source_socket, target_socket, detected) ==
    [NoError EXCEPT !.tag = "Cycle", !.during = during,
                    !.source_socket = target_socket,
                    !.target_socket = source_socket, !.detected = detected]

\* Error::Cycle {during, source_socket, target_socket, detected}
Cycle(during, source_socket, target_socket, detected) ==
    [NoError EXCEPT !.tag = "Cycle", !.during = during,
                    !.source_socket = source_socket,
                    !.target_socket = target_socket, !.detected = detected]

----------------------------------------------------------------------------
(* Graph<Unvalidated>::validate *)

\* a faulty variant of OnPath: only the node the walk is at is compared
OnPathLast(path, node_id) == path # <<>> /\ path[Len(path)] = node_id

\* `path.contains(node_id)`: the node is on the current path
OnPath(path, node_id) == Contains(path, node_id)

\* `visited.contains(node_id)`: the node was expanded before
WasVisited(visited, node_id) == Contains(visited, node_id)

\* the locals of validate: path, visited, next, pushed_some, and the error
\* it returns early with, if any
ValidateLocals ==
    [path |-> <<>>, visited |-> <<>>, next |-> <<>>, pushed_some |-> FALSE,
     err |-> NoError]

\* the `for (input, (socket_ref, _value)) in node.inputs()` loop, from the
\* j-th input of `order` on
RECURSIVE ScanInputs(_, _, _, _)
ScanInputs(node, order, j, st) ==
    IF j > Len(order) THEN st
    ELSE LET input == order[j]
             socket_ref == inputs(node)[input].ref
         IN  IF socket_ref.tag # "Node"
             THEN ScanInputs(node, order, j + 1, st)
             ELSE IF OnPath(st.path, socket_ref.node)
             THEN [st EXCEPT !.err = Cycle(st.path, input, socket_ref.name,
                                           socket_ref.node)]
             ELSE IF WasVisited(st.visited, socket_ref.node)
             THEN ScanInputs(node, order, j + 1, st)
             ELSE ScanInputs(node, order, j + 1,
                             [st EXCEPT !.next = <<socket_ref.node>> \o @,
                                        !.pushed_some = TRUE])

\* the `while let Some(current_node_id) = next.pop_front()` loop
RECURSIVE Walk(_, _, _, _)
Walk(g, p, ord, st) ==
    IF st.next = <<>> THEN st
    ELSE LET current_node_id == Head(st.next)
             popped == [st EXCEPT !.next = Tail(@)]
         IN  IF current_node_id \notin DOMAIN g.nodes
             THEN Walk(g, p, ord, popped)
             ELSE LET node == g.nodes[current_node_id]
                      entered == [popped EXCEPT
                                    !.visited = Append(@, current_node_id),
                                    !.path = Append(@, current_node_id),
                                    !.pushed_some = FALSE]
                      scanned == ScanInputs(node,
                                            Iter(DOMAIN inputs(node),
                                                 InKey(p, current_node_id), ord),
                                            1, entered)
                  IN  IF scanned.err.tag # "None" THEN scanned
                      ELSE IF scanned.pushed_some THEN Walk(g, p, ord, scanned)
                      ELSE Walk(g, p, ord,
                                [scanned EXCEPT
                                    !.path = SubSeq(@, 1, Len(@) - 1)])

\* the `for (output, (socket_ref, value)) in self.outputs.iter()` loop, from
\* the i-th output of `order` on
RECURSIVE ValidateOutputs(_, _, _, _, _, _)
ValidateOutputs(g, p, ord, order, i, st) ==
    IF i > Len(order) THEN st
    ELSE LET output == order[i]
             socket_ref == g.outputs[output].ref
             value == g.outputs[output].value
         IN  IF socket_ref.tag = "None"
             THEN IF is_none(value)
                  THEN [st EXCEPT !.err = UnlinkeUnsetdGraphOutput(output)]
                  ELSE ValidateOutputs(g, p, ord, order, i + 1, st)
             ELSE IF socket_ref.tag # "Node"
             THEN ValidateOutputs(g, p, ord, order, i + 1, st)
             ELSE IF WasVisited(st.visited, socket_ref.node)
             THEN ValidateOutputs(g, p, ord, order, i + 1, st)
             ELSE LET walked == Walk(g, p, ord,
                                     [st EXCEPT !.next = Append(@, socket_ref.node)])
                  IN  IF walked.err.tag # "None" THEN walked
                      ELSE ValidateOutputs(g, p, ord, order, i + 1, walked)

\* the cycle and completeness checks of validate on graph g (lines 411-475)
CheckOutputs(g, p, ord) ==
    ValidateOutputs(g, p, ord, Iter(DOMAIN g.outputs, OutKey(p), ord), 1,
                    ValidateLocals)

RECURSIVE validate(_, _, _)

\* a faulty variant of ImportedNode::validate: the node is built again from
\* the validated sub-graph, as From<(T, Graph)> does, instead of keeping
\* its inputs
ImportedNodeRebuilt(node, p, ord) ==
    LET inner == validate(node.inner, p, ord)
    IN  IF inner.tag # "Ok" THEN inner
        ELSE Ok(ImportedFrom(node.name, inner.ok))

\* ImportedNode<Unvalidated>::validate
ImportedNodeValidate(node, p, ord) ==
    LET inner == validate(node.inner, p, ord)
    IN  IF inner.tag # "Ok" THEN inner
        ELSE Ok(ImportedNode(node.name, node.inputs, inner.ok))

\* a faulty variant of Node::validate: sub-graphs are not validated
NodeValidateShallow(node, p, ord) == Ok(node)

\* Node<Unvalidated>::validate
NodeValidate(node, p, ord) ==
    IF node.kind = "Graph" THEN Ok(node)
    ELSE ImportedNodeValidate(node, p, ord)

\* a faulty variant of validate: the sub-graphs are validated before the
\* outputs of g are checked
ValidateInnerFirst(g, p, ord) ==
    LET st == CheckOutputs(g, p, ord)
        ids == Iter(DOMAIN g.nodes, NodesKey(p), ord)
        sub == [id \in DOMAIN g.nodes |->
                   NodeValidate(g.nodes[id], Append(p, id), ord)]
        failing == SelectSeq(ids, LAMBDA id : sub[id].tag # "Ok")
    IN  IF failing # <<>> THEN sub[Head(failing)]
        ELSE IF st.err.tag # "None" THEN st.err
        ELSE Ok(Graph(g.inputs, g.outputs,
                      [id \in DOMAIN g.nodes |-> sub[id].ok]))

\* Graph<Unvalidated>::validate; p is the path of Imported node ids that
\* leads from the top graph to g
validate(g, p, ord) ==
    LET st == CheckOutputs(g, p, ord)
    IN  IF st.err.tag # "None" THEN st.err
        ELSE LET ids == Iter(DOMAIN g.nodes, NodesKey(p), ord)
                 sub == [id \in DOMAIN g.nodes |->
                            NodeValidate(g.nodes[id], Append(p, id), ord)]
                 failing == SelectSeq(ids, LAMBDA id : sub[id].tag # "Ok")
             IN  IF failing # <<>> THEN sub[Head(failing)]
                 ELSE Ok(Graph(g.inputs, g.outputs,
                               [id \in DOMAIN g.nodes |-> sub[id].ok]))

----------------------------------------------------------------------------
(* Shading functions *)

\* Option::unwrap_or(0.) of a socket's payload
UnwrapOr0(value) == IF is_none(value) THEN 0 ELSE value.val[1]

RECURSIVE SumOf(_, _)
SumOf(ins, names) ==
    IF names = {} THEN 0
    ELSE LET n == CHOOSE x \in names : TRUE
         IN  UnwrapOr0(ins[n]) + SumOf(ins, names \ {n})

\* a closure that writes every declared output from its inputs, reading an
\* unset input as 0 (the `identity` closure of the tests, the `add` node)
ShaderSum(ins, outs) ==
    [status |-> "Ok",
     outputs |-> [n \in DOMAIN outs |->
                     [outs[n] EXCEPT !.val = Some(SumOf(ins, DOMAIN ins))]]]

\* Shader::default(): the no-op closure of a node! without a closure
ShaderNoop(ins, outs) == [status |-> "Ok", outputs |-> outs]

\* a closure that starts with handle_missing_socket_values!: Err when an
\* input is unset, and the outputs are left untouched
ShaderStrict(ins, outs) ==
    IF \E n \in DOMAIN ins : is_none(ins[n])
    THEN [status |-> "Err", outputs |-> outs]
    ELSE ShaderSum(ins, outs)

\* Shader::call(&inputs, &mut outputs)
ShaderCall(shader, ins, outs) ==
    CASE shader = "Noop" -> ShaderNoop(ins, outs)
      [] shader = "Strict" -> ShaderStrict(ins, outs)
      [] OTHER -> ShaderSum(ins, outs)

----------------------------------------------------------------------------
(* Graph<Validated>::run and run_node *)

\* HashMap::insert
Insert(map, key, value) == (key :> value) @@ map

\* what a call leaves behind: the graph (self), Ok / Err(Error::Shader) / a
\* panic / recursion cut off at MaxDepth, and the shader calls it made: the
\* node called (its path from the top graph) and the snapshot it was given
Ran(g, status, log) == [g |-> g, status |-> status, log |-> log]

RECURSIVE run(_, _, _, _)
RECURSIVE run_node(_, _, _, _, _)

\* the value a linked socket reads: `ran` is the state after run_node on the
\* producer (for a Node reference) or the state before (for a Graph one)
ReadRef(ran, socket_ref) ==
    IF socket_ref.tag = "Node"
    THEN outputs(ran.g.nodes[socket_ref.node])[socket_ref.name]
    ELSE ran.g.inputs[socket_ref.name]

\* whether reading the reference panics (an unwrap of a missing entry)
ReadPanics(ran, socket_ref) ==
    IF socket_ref.tag = "Node"
    THEN \/ socket_ref.node \notin DOMAIN ran.g.nodes
         \/ socket_ref.name \notin DOMAIN outputs(ran.g.nodes[socket_ref.node])
    ELSE socket_ref.name \notin DOMAIN ran.g.inputs

\* resolve a linked socket: run the producer node first if it is a node
Resolve(g, p, ord, d, socket_ref) ==
    IF socket_ref.tag = "Node"
    THEN run_node(g, p, ord, d + 1, socket_ref.node)
    ELSE Ran(g, "Ok", <<>>)

\* after resolving socket_ref with outcome `ran`: an error of the producer is
\* passed on (`?`), a missing entry panics (unwrap), and otherwise acc goes
\* on with the graph as the producer left it
Resolved(acc, ran, socket_ref) ==
    [acc EXCEPT !.g = ran.g,
                !.log = acc.log \o ran.log,
                !.status = IF ran.status # "Ok" THEN ran.status
                           ELSE IF ReadPanics(ran, socket_ref) THEN "Panic"
                           ELSE "Ok"]

\* a faulty variant of GraphInputLinked: the value of the producer is read
\* as it was before the producer was run
GraphInputStale(acc, name, socket_ref, ran) ==
    LET next == Resolved(acc, ran, socket_ref)
    IN  IF next.status # "Ok" THEN next
        ELSE [next EXCEPT !.ins = Insert(@, name, ReadRef(acc, socket_ref))]

\* Node::Graph arm, one linked input: `inputs.insert(name, value)`
GraphInputLinked(acc, name, socket_ref, ran) ==
    LET next == Resolved(acc, ran, socket_ref)
    IN  IF next.status # "Ok" THEN next
        ELSE [next EXCEPT !.ins = Insert(@, name, ReadRef(ran, socket_ref))]

\* a faulty variant of GraphInput: the link of the input is not followed
GraphInputUnresolved(cur, p, ord, d, name, acc) ==
    [acc EXCEPT !.ins = Insert(@, name, FromType(cur.inputs[name].type))]

\* Node::Graph arm, one input of cur: a linked input takes the producer's
\* value, an unlinked one `r#type.into()`
GraphInput(cur, p, ord, d, name, acc) ==
    IF cur.inputs[name].ref.tag = "None"
    THEN [acc EXCEPT !.ins = Insert(@, name, FromType(cur.inputs[name].type))]
    ELSE GraphInputLinked(acc, name, cur.inputs[name].ref,
                          Resolve(acc.g, p, ord, d, cur.inputs[name].ref))

\* Node::Graph arm: the loop over cur_inner.inputs from the j-th input on;
\* acc.ins is the `inputs` snapshot built so far
RECURSIVE GraphInputs(_, _, _, _, _, _, _)
GraphInputs(cur, p, ord, d, order, j, acc) ==
    IF j > Len(order) \/ acc.status # "Ok" THEN acc
    ELSE GraphInputs(cur, p, ord, d, order, j + 1,
                     GraphInput(cur, p, ord, d, order[j], acc))

\* Node::Imported arm, one linked input: `node.inner.inputs.insert(name, value)`
ImportedInputLinked(acc, node_id, name, socket_ref, ran) ==
    LET next == Resolved(acc, ran, socket_ref)
    IN  IF next.status # "Ok" THEN next
        ELSE [next EXCEPT !.g.nodes[node_id].inner.inputs =
                              Insert(@, name, ReadRef(ran, socket_ref))]

\* Node::Imported arm, one input of cur: an unlinked input is defaulted in
\* the sub-graph's slot (`get_mut(&name).unwrap().set_default()`)
ImportedInput(cur, node_id, p, ord, d, name, acc) ==
    IF cur.inputs[name].ref.tag = "None"
    THEN IF name \notin DOMAIN acc.g.nodes[node_id].inner.inputs
         THEN [acc EXCEPT !.status = "Panic"]
         ELSE [acc EXCEPT !.g.nodes[node_id].inner.inputs[name] =
                              set_default(@)]
    ELSE ImportedInputLinked(acc, node_id, name, cur.inputs[name].ref,
                             Resolve(acc.g, p, ord, d, cur.inputs[name].ref))

\* Node::Imported arm: the loop over cur_inner.inputs from the j-th input on
RECURSIVE ImportedInputs(_, _, _, _, _, _, _, _)
ImportedInputs(cur, node_id, p, ord, d, order, j, acc) ==
    IF j > Len(order) \/ acc.status # "Ok" THEN acc
    ELSE ImportedInputs(cur, node_id, p, ord, d, order, j + 1,
                        ImportedInput(cur, node_id, p, ord, d, order[j], acc))

\* a faulty variant of AllOutputsSet: run_node without the memoization test
NeverMemoized(node) == FALSE

\* the memoization test of run_node: every output of the node has a value
AllOutputsSet(node) ==
    \A k \in DOMAIN outputs(node) : ~is_none(outputs(node)[k])

\* `node.shader.call(&inputs, &mut node.outputs)?` on the snapshot acc.ins
CallShader(acc, p, node_id, called) ==
    Ran([acc.g EXCEPT !.nodes[node_id].outputs = called.outputs],
        called.status,
        Append(acc.log, [at |-> Append(p, node_id), ins |-> acc.ins]))

\* Node::Graph arm once the inputs are resolved
GraphArm(acc, p, node_id) ==
    IF acc.status # "Ok" THEN Ran(acc.g, acc.status, acc.log)
    ELSE CallShader(acc, p, node_id,
                    ShaderCall(acc.g.nodes[node_id].shader, acc.ins,
                               acc.g.nodes[node_id].outputs))

\* `node.inner.run()?` with outcome `inner`
InnerRan(acc, node_id, inner) ==
    Ran([acc.g EXCEPT !.nodes[node_id].inner = inner.g],
        inner.status, acc.log \o inner.log)

\* Node::Imported arm once the inputs are written
ImportedArm(acc, p, ord, d, node_id) ==
    IF acc.status # "Ok" THEN Ran(acc.g, acc.status, acc.log)
    ELSE InnerRan(acc, node_id,
                  run(acc.g.nodes[node_id].inner, Append(p, node_id), ord,
                      d + 1))

RunLocals(g) == [g |-> g, status |-> "Ok", log |-> <<>>, ins |-> EmptyMap,
                 out |-> EmptyMap]

\* run_node past the memoization test: `match cur`
Compute(g, p, ord, d, node_id, cur, order) ==
    IF cur.kind = "Graph"
    THEN GraphArm(GraphInputs(cur, p, ord, d, order, 1, RunLocals(g)),
                  p, node_id)
    ELSE ImportedArm(ImportedInputs(cur, node_id, p, ord, d, order, 1,
                                    RunLocals(g)),
                     p, ord, d, node_id)

\* Graph<Validated>::run_node
run_node(g, p, ord, d, node_id) ==
    IF d > MaxDepth THEN Ran(g, "Diverged", <<>>)
    ELSE IF node_id \notin DOMAIN g.nodes THEN Ran(g, "Panic", <<>>)
    ELSE IF AllOutputsSet(g.nodes[node_id]) THEN Ran(g, "Ok", <<>>)
    ELSE Compute(g, p, ord, d, node_id, g.nodes[node_id],
                 Iter(DOMAIN g.nodes[node_id].inputs, InKey(p, node_id), ord))

\* one linked output of run: the value of the producer
OutputLinked(acc, name, socket_ref, ran) ==
    LET next == Resolved(acc, ran, socket_ref)
    IN  IF next.status # "Ok" THEN next
        ELSE [next EXCEPT !.out = Insert(@, name,
                              [ref |-> socket_ref,
                               value |-> ReadRef(ran, socket_ref)])]

\* the closure run maps over the unset outputs, for one output of `old`
\* (the clone of self.outputs): an unlinked output takes its default
RunOutput(old, p, ord, d, name, acc) ==
    IF old[name].ref.tag = "None"
    THEN [acc EXCEPT !.out = Insert(@, name,
                         [ref |-> old[name].ref,
                          value |-> set_default(old[name].value)])]
    ELSE OutputLinked(acc, name, old[name].ref,
                      Resolve(acc.g, p, ord, d, old[name].ref))

\* the closure run maps over the unset outputs, from the i-th one on;
\* acc.out is the map being collected
RECURSIVE RunOutputs(_, _, _, _, _, _, _)
RunOutputs(old, p, ord, d, order, i, acc) ==
    IF i > Len(order) \/ acc.status # "Ok" THEN acc
    ELSE RunOutputs(old, p, ord, d, order, i + 1,
                    RunOutput(old, p, ord, d, order[i], acc))

\* a faulty variant of UnsetOutputs: run without the filter
EveryOutput(outs, order) == order

\* the outputs run works on: `.filter(|(_, (_, value))| value.is_none())`
UnsetOutputs(outs, order) ==
    SelectSeq(order, LAMBDA name : is_none(outs[name].value))

\* a faulty variant of Collected: the outputs resolved before an error are
\* assigned to self.outputs
CollectedPartial(acc) ==
    Ran([acc.g EXCEPT !.outputs = acc.out], acc.status, acc.log)

\* the end of run: self.outputs is assigned only when every output resolved
\* (the `?` after collect returns before the assignment otherwise)
Collected(acc) ==
    IF acc.status = "Ok"
    THEN Ran([acc.g EXCEPT !.outputs = acc.out], "Ok", acc.log)
    ELSE Ran(acc.g, acc.status, acc.log)

\* Graph<Validated>::run
run(g, p, ord, d) ==
    IF d > MaxDepth THEN Ran(g, "Diverged", <<>>)
    ELSE Collected(RunOutputs(g.outputs, p, ord, d,
                              UnsetOutputs(g.outputs,
                                           Iter(DOMAIN g.outputs, OutKey(p),
                                                ord)),
                              1, RunLocals(g)))

----------------------------------------------------------------------------
(* Signature; parsing of an .eray program (parsing.rs) *)

\* Signature { input, output }: two maps from socket name to SocketType
Signature(input, output) == [input |-> input, output |-> output]

\* a faulty variant of ImportedNode::signature: the outputs by value
SignatureOfValues(node) ==
    Signature([n \in DOMAIN node.inputs |-> node.inputs[n].type],
              [n \in DOMAIN node.inner.outputs |-> node.inner.outputs[n].value])

\* ImportedNode::signature
ImportedNodeSignature(node) ==
    Signature([n \in DOMAIN node.inputs |-> node.inputs[n].type],
              [n \in DOMAIN node.inner.outputs |->
                  TypeOf(node.inner.outputs[n].value)])

\* Node::signature
signature(node) ==
    Signature([n \in DOMAIN inputs(node) |-> inputs(node)[n].type],
              [n \in DOMAIN outputs(node) |-> TypeOf(outputs(node)[n])])

\* PResult<T>: Ok(value), or Err(Error) with the ErrorKind::Code fields
POk(value) ==
    [tag |-> "Ok", value |-> value, type |-> "", variant |-> "", got |-> "",
     section |-> ""]

\* Error::new(ErrorKind::Code { type, section }, _): type is the CodeError,
\* variant and got the fields of CodeError::Undefined / the redefined name
PErr(type, variant, got, section) ==
    [tag |-> "Err", value |-> <<>>, type |-> type, variant |-> variant,
     got |-> got, section |-> section]

\* a panic inside the parser (todo!, unwrap)
PPanic == [PErr("", "", "", "") EXCEPT !.tag = "Panic"]

\* parse_input / parse_output: the loop over the declared vars from the i-th
RECURSIVE ParseVars(_, _, _)
ParseVars(decls, i, res) ==
    IF i > Len(decls) THEN POk(res)
    ELSE IF decls[i].id \in DOMAIN res
    THEN PErr("Redefinition", "", decls[i].id, "Signature")
    ELSE ParseVars(decls, i + 1, Insert(res, decls[i].id, decls[i].ty))

parse_input(input) == ParseVars(input, 1, EmptyMap)

parse_output(output) == ParseVars(output, 1, EmptyMap)

parse_signature(sig) ==
    LET input == parse_input(sig.input)
        output == parse_output(sig.output)
    IN  IF input.tag # "Ok" THEN input
        ELSE IF output.tag # "Ok" THEN output
        ELSE POk(Signature(input.value, output.value))

\* a faulty variant of get_loaded: the first candidate loaded under the name
GetLoadedByName(loaded, name, sig, section) ==
    IF name \notin DOMAIN loaded
    THEN PErr("Undefined", "Undefined", name, section)
    ELSE POk(Head(loaded[name]))

\* get_loaded: the first candidate loaded under the name whose signature
\* equals the one asked for
get_loaded(loaded, name, sig, section) ==
    IF name \notin DOMAIN loaded
    THEN PErr("Undefined", "Undefined", name, section)
    ELSE LET found == SelectSeq(loaded[name],
                                LAMBDA l : ImportedNodeSignature(l) = sig)
         IN  IF found = <<>>
             THEN PErr("Undefined", "NoSignatureOverload", name, section)
             ELSE POk(Head(found))

\* parse_import: Import { alias, name, signature }
parse_import(import) ==
    LET sig == parse_signature(import.signature)
    IN  IF sig.tag # "Ok" THEN sig
        ELSE POk([alias |-> import.alias, name |-> import.name,
                  signature |-> sig.value])

\* the closure of parse_imports on one import, parsed: an import that does
\* not parse is left out by flat_map, one that is not loaded is an error
CheckedImport(acc, parsed, loaded) ==
    IF parsed.tag # "Ok" THEN acc
    ELSE LET got == get_loaded(loaded, parsed.value.name,
                               parsed.value.signature, "Imports")
         IN  IF got.tag # "Ok" THEN got
             ELSE POk(Append(acc.value, parsed.value))

RECURSIVE ParseImports(_, _, _, _)
ParseImports(imports, loaded, i, acc) ==
    IF i > Len(imports) \/ acc.tag # "Ok" THEN acc
    ELSE ParseImports(imports, loaded, i + 1,
                      CheckedImport(acc, parse_import(imports[i]), loaded))

parse_imports(imports, loaded) == ParseImports(imports, loaded, 1, POk(<<>>))

\* parse_node: the node is the loaded node of the first import whose alias
\* is the node's reference
parse_node(node, loaded, imports) ==
    LET found == SelectSeq(imports, LAMBDA import : import.alias = node.ref)
    IN  IF found = <<>>
        THEN PErr("Undefined", "NotImported", node.ref, "Nodes")
        ELSE get_loaded(loaded, Head(found).name, Head(found).signature,
                        "Nodes")

\* one more node collected into the PResult<HashMap<_, _>> of parse_nodes
CollectedNode(acc, id, parsed) ==
    IF parsed.tag # "Ok" THEN parsed
    ELSE POk(Insert(acc.value, id, parsed.value))

RECURSIVE ParseNodes(_, _, _, _, _)
ParseNodes(nodes, loaded, imports, i, acc) ==
    IF i > Len(nodes) \/ acc.tag # "Ok" THEN acc
    ELSE ParseNodes(nodes, loaded, imports, i + 1,
                    CollectedNode(acc, nodes[i].id,
                                  parse_node(nodes[i], loaded, imports)))

parse_nodes(nodes, loaded, imports) ==
    ParseNodes(nodes, loaded, imports, 1, POk(EmptyMap))

\* LinkSide::NodeSocket / LinkSide::GraphSocket
NodeSocket(id, name) == [tag |-> "Node", node |-> id, name |-> name]
GraphSocket(name) == [tag |-> "Graph", node |-> "", name |-> name]

\* the `error` closure of parse_field
FieldErr(name) == PErr("Undefined", "Undefined", name, "Links")

\* parse_field for a field of a node: the socket is looked up among the
\* node's outputs for the left side of a link (Side::Input), among its inputs
\* for the right side
NodeField(field, nodes, side) ==
    IF field.source \notin DOMAIN nodes THEN FieldErr(field.source)
    ELSE IF side = "Input"
    THEN IF field.socket \in DOMAIN signature(nodes[field.source]).output
         THEN POk(<<NodeSocket(field.source, field.socket),
                    signature(nodes[field.source]).output[field.socket]>>)
         ELSE FieldErr(field.source)
    ELSE IF field.socket \in DOMAIN signature(nodes[field.source]).input
         THEN POk(<<NodeSocket(field.source, field.socket),
                    signature(nodes[field.source]).input[field.socket]>>)
         ELSE FieldErr(field.source)

\* parse_field for a field of @IN / @OUT
GraphField(field, graph_signature, side) ==
    IF side = "Input"
    THEN IF field.socket \in DOMAIN graph_signature.input
         THEN POk(<<GraphSocket(field.socket),
                    graph_signature.input[field.socket]>>)
         ELSE FieldErr("@IN." \o field.socket)
    ELSE IF field.socket \in DOMAIN graph_signature.output
         THEN POk(<<GraphSocket(field.socket),
                    graph_signature.output[field.socket]>>)
         ELSE FieldErr("@OUT." \o field.socket)

\* parse_field: (LinkSide, SocketType) of `source.socket`
parse_field(field, graph_signature, nodes, side) ==
    IF field.rule = "id" THEN NodeField(field, nodes, side)
    ELSE IF \/ side = "Input" /\ field.source = "@IN"
            \/ side = "Output" /\ field.source = "@OUT"
    THEN GraphField(field, graph_signature, side)
    ELSE PErr("SideMismatch", "", "", "Links")

\* ssref!(node id => name) / ssref!(graph name) of a LinkSide
RefOf(link_side) ==
    IF link_side.tag = "Node" THEN NodeRef(link_side.node, link_side.name)
    ELSE GraphRef(link_side.name)

\* Error::Missing(Side, Name) and the Ok of a setter
Missing(side, name) == [tag |-> "Missing", side |-> side, name |-> name]
SetOk == [tag |-> "Ok", side |-> "", name |-> ""]

\* what a setter leaves: the value it was called on and its result
SetTo(value, res) == [value |-> value, res |-> res]

\* Node::set_input
set_input(node, name, socket_ref) ==
    IF name \notin DOMAIN node.inputs
    THEN SetTo(node, Missing("Input", name))
    ELSE SetTo([node EXCEPT !.inputs[name].ref = socket_ref], SetOk)

\* Material::set_input, on the material's graph
material_set_input(g, name, value) ==
    IF name \notin DOMAIN g.inputs
    THEN SetTo(g, Missing("Input", name))
    ELSE SetTo([g EXCEPT !.inputs[name] = value], SetOk)

\* what parse_link leaves: its result and the nodes map
Linked(res, nodes) == [res |-> res, nodes |-> nodes]

\* parse_link, both sides parsed; the two socket types are not compared
LinkSides(lhs, rhs, nodes) ==
    IF lhs.tag # "Ok" THEN Linked(lhs, nodes)
    ELSE IF rhs.tag # "Ok" THEN Linked(rhs, nodes)
    ELSE IF rhs.value[1].tag = "Graph"
    THEN Linked(POk(Some(<<rhs.value[1].name, RefOf(lhs.value[1])>>)), nodes)
    ELSE IF rhs.value[1].node \notin DOMAIN nodes
    THEN Linked(PErr("Undefined", "Undefined", rhs.value[1].node, "Links"),
                nodes)
    ELSE LET set == set_input(nodes[rhs.value[1].node], rhs.value[1].name,
                              RefOf(lhs.value[1]))
         IN  IF set.res.tag # "Ok" THEN Linked(PPanic, nodes)
             ELSE Linked(POk(None),
                         [nodes EXCEPT ![rhs.value[1].node] = set.value])

parse_link(link, graph_signature, nodes) ==
    LinkSides(parse_field(link.lhs, graph_signature, nodes, "Input"),
              parse_field(link.rhs, graph_signature, nodes, "Output"),
              nodes)

\* parse_links after one link: a link to a graph output is collected when
\* the output is declared, a link to a node has been set on the node
CollectedLink(acc, linked, graph_signature) ==
    IF linked.res.tag # "Ok" THEN [acc EXCEPT !.res = linked.res]
    ELSE IF linked.res.value = None THEN [acc EXCEPT !.nodes = linked.nodes]
    ELSE IF linked.res.value[1][1] \notin DOMAIN graph_signature.output
    THEN [acc EXCEPT !.res = PErr("Undefined", "Undefined",
                                  "@OUT." \o linked.res.value[1][1], "Links")]
    ELSE [acc EXCEPT !.res = POk(Append(acc.res.value, linked.res.value[1]))]

RECURSIVE ParseLinks(_, _, _, _)
ParseLinks(links, graph_signature, i, acc) ==
    IF i > Len(links) \/ acc.res.tag # "Ok" THEN acc
    ELSE ParseLinks(links, graph_signature, i + 1,
                    CollectedLink(acc,
                                  parse_link(links[i], graph_signature,
                                             acc.nodes),
                                  graph_signature))

parse_links(links, graph_signature, nodes) ==
    ParseLinks(links, graph_signature, 1, Linked(POk(<<>>), nodes))

\* the loop of parse_program over out_links: `opt.replace(socket_ref)`
RECURSIVE LinkOutputs(_, _, _)
LinkOutputs(outs, out_links, i) ==
    IF i > Len(out_links) THEN outs
    ELSE LinkOutputs([outs EXCEPT ![out_links[i][1]].ref = out_links[i][2]],
                     out_links, i + 1)

\* the Graph parse_program builds from the signature and parse_links' result
ProgramGraph(sig, linked) ==
    IF linked.res.tag # "Ok" THEN linked.res
    ELSE POk(Graph([n \in DOMAIN sig.input |-> FromType(sig.input[n])],
                   LinkOutputs([n \in DOMAIN sig.output |->
                                   [ref |-> NoRef,
                                    value |-> FromType(sig.output[n])]],
                               linked.res.value, 1),
                   linked.nodes))

\* parse_program: the program is the parse tree pest gives for the text
parse_program(program, loaded) ==
    LET sig == parse_signature(program.signature)
        imports == parse_imports(program.imports, loaded)
    IN  IF sig.tag # "Ok" THEN sig
        ELSE IF imports.tag # "Ok" THEN imports
        ELSE LET nodes == parse_nodes(program.nodes, loaded, imports.value)
             IN  IF nodes.tag # "Ok" THEN nodes
                 ELSE ProgramGraph(sig.value,
                                   parse_links(program.links, sig.value,
                                               nodes.value))

----------------------------------------------------------------------------
(* The graphs the program is started on *)

NodeIds == {"a", "b", "c"}

\* a NodeId no graph defines
MissingId == "z"

Pos(n) == CHOOSE i \in 1..Len(NameOrder) : NameOrder[i] = n

Unset == SocketValue("Value", None)

Value(opt) == SocketValue("Value", opt)

\* the links of the inputs of one node: at most two, to the `value` output
\* of any NodeId
LinkLists ==
    {<<>>} \cup {<<NodeRef(t, "value")>> : t \in NodeIds \cup {MissingId}}
           \cup {<<NodeRef(t, "value"), NodeRef(u, "value")>> :
                    t \in NodeIds, u \in NodeIds}

Wirings ==
    {w \in [NodeIds -> LinkLists] :
        Len(w["a"]) + Len(w["b"]) + Len(w["c"]) <= MaxEdges}

\* a primitive node with one output `value` and the inputs x, y linked to refs
WiredNode(refs, shader) ==
    GraphNode([n \in (IF Len(refs) = 2 THEN {"x", "y"} ELSE {"x"}) |->
                  [ref |-> IF n = "x"
                           THEN (IF refs = <<>> THEN NoRef ELSE refs[1])
                           ELSE refs[2],
                   type |-> "Value"]],
              [n \in {"value"} |-> Unset],
              shader)

\* a graph output: unlinked and unset, unlinked and set, linked to the graph
\* input, linked to a node and already set, linked to a node
OutputChoices ==
    {[ref |-> NoRef, value |-> Unset],
     [ref |-> NoRef, value |-> Value(Some(3))],
     [ref |-> GraphRef("in"), value |-> Unset],
     [ref |-> NodeRef("b", "value"), value |-> Value(Some(3))]}
    \cup {[ref |-> NodeRef(t, "value"), value |-> Unset] :
             t \in NodeIds \cup {MissingId}}

FirstOutputChoices ==
    {[ref |-> NoRef, value |-> Unset],
     [ref |-> NodeRef("a", "value"), value |-> Unset]}

\* graphs of three primitive nodes: every wiring of at most MaxEdges links
\* under zero to three outputs
WiringGraphs ==
    {Graph([n \in {"in"} |-> Value(Some(1))],
           outs,
           [id \in NodeIds |-> WiredNode(w[id], "Sum")]) :
        w \in Wirings,
        outs \in {EmptyMap}
                 \cup {[n \in {"o1"} |-> o1] : o1 \in FirstOutputChoices}
                 \cup {[n \in {"o1", "o2"} |-> IF n = "o1" THEN c[1] ELSE c[2]] :
                          c \in FirstOutputChoices \X OutputChoices}
                 \cup {[n \in {"o1", "o2", "o3"} |->
                          IF n = "o1" THEN c[1] ELSE IF n = "o2" THEN c[2]
                          ELSE [ref |-> NoRef, value |-> Unset]] :
                          c \in FirstOutputChoices \X OutputChoices}}

Shaders == {"Sum", "Noop", "Strict"}

TwoOutputs(r1, r2) ==
    [n \in {"o1", "o2"} |->
        [ref |-> IF n = "o1" THEN r1 ELSE r2, value |-> Unset]]

\* two outputs that share the intermediate node c (a and b both read c), and
\* one output whose node a reads b and c while c reads b; every shader, the
\* graph input set or unset
ShaderGraphs ==
    {Graph([n \in {"in"} |-> in],
           TwoOutputs(NodeRef("a", "value"), NodeRef("b", "value")),
           [id \in NodeIds |->
               WiredNode(IF id = "c" THEN <<GraphRef("in")>>
                         ELSE <<NodeRef("c", "value")>>, sh[id])]) :
        in \in {Unset, Value(Some(2))}, sh \in [NodeIds -> Shaders]}
    \cup
    {Graph([n \in {"in"} |-> in],
           [n \in {"o1"} |-> [ref |-> NodeRef("a", "value"), value |-> Unset]],
           [id \in NodeIds |->
               WiredNode(IF id = "a"
                         THEN <<NodeRef("b", "value"), NodeRef("c", "value")>>
                         ELSE IF id = "c" THEN <<NodeRef("b", "value")>>
                         ELSE <<GraphRef("in")>>, sh[id])]) :
        in \in {Unset, Value(Some(2))}, sh \in [NodeIds -> Shaders]}

\* the `identity` graph of the tests (setup_imports): its node `id` does not
\* read the graph input
IdentityGraph ==
    Graph([n \in {"value"} |-> Value(Some(0))],
          [n \in {"value"} |-> [ref |-> NodeRef("id", "value"), value |-> Unset]],
          [n \in {"id"} |->
              GraphNode([m \in {"value"} |-> [ref |-> NoRef, type |-> "Value"]],
                        [m \in {"value"} |-> Unset], "Sum")])

\* node!(import ..., inputs: "value": (socket_ref, type))
Import(name, inner, socket_ref, type) ==
    LET node == ImportedFrom(name, inner)
    IN  [node EXCEPT !.inputs["value"] = [ref |-> socket_ref, type |-> type]]

\* a graph around an import of the identity graph
WrapGraph ==
    Graph([n \in {"value"} |-> Unset],
          [n \in {"value"} |-> [ref |-> NodeRef("id", "value"), value |-> Unset]],
          [n \in {"id"} |->
              Import("identity", IdentityGraph, GraphRef("value"), "Value")])

\* a graph whose nodes p and q read each other
CyclicGraph ==
    Graph([n \in {"value"} |-> Unset],
          [n \in {"value"} |-> [ref |-> NodeRef("p", "value"), value |-> Unset]],
          [n \in {"p", "q"} |->
              WiredNode(<<NodeRef(IF n = "p" THEN "q" ELSE "p", "value")>>,
                        "Sum")])

\* a graph whose output is neither linked nor set
UnsetGraph ==
    Graph([n \in {"value"} |-> Unset],
          [n \in {"value"} |-> [ref |-> NoRef, value |-> Unset]],
          EmptyMap)

\* a graph with one output computed by a node and one output linked
\* directly to its input
PassGraph ==
    Graph([n \in {"value"} |-> Unset],
          [n \in {"value", "q"} |->
              [ref |-> IF n = "q" THEN GraphRef("value")
                       ELSE NodeRef("id", "value"),
               value |-> Unset]],
          [n \in {"id"} |-> WiredNode(<<GraphRef("value")>>, "Sum")])

SubGraphs == {IdentityGraph, WrapGraph, CyclicGraph, UnsetGraph, PassGraph}

\* graphs of two Imported nodes a and b
ImportGraphs ==
    {Graph([n \in {"in"} |-> in],
           outs,
           [id \in {"a", "b"} |->
               IF id = "a" THEN Import("sub", sa, ra, "Value")
               ELSE Import("sub", sb, rb, "Value")]) :
        in \in {Unset, Value(Some(2))},
        sa \in SubGraphs,
        sb \in {IdentityGraph, CyclicGraph, UnsetGraph},
        ra \in {NoRef, GraphRef("in"), NodeRef("b", "value")},
        rb \in {GraphRef("in"), NodeRef("a", "value")},
        outs \in {TwoOutputs(NodeRef("a", "value"), NodeRef("b", "value")),
                  TwoOutputs(NodeRef("a", "value"), NodeRef("a", "q")),
                  [n \in {"o1"} |->
                      [ref |-> NodeRef("a", "value"), value |-> Unset]]}}

\* the graph of the `add` node: inputs lhs = 2 and rhs = 3, output sum linked
\* to add.sum
AddGraph ==
    Graph([n \in {"lhs", "rhs"} |-> Value(Some(IF n = "lhs" THEN 2 ELSE 3))],
          [n \in {"sum"} |-> [ref |-> NodeRef("add", "sum"), value |-> Unset]],
          [id \in {"add"} |->
              GraphNode([n \in {"lhs", "rhs"} |->
                            [ref |-> GraphRef(n), type |-> "Value"]],
                        [n \in {"sum"} |-> Unset], "Sum")])

\* the graph of the add node with its output sum already set
PresetGraph == [AddGraph EXCEPT !.outputs["sum"].value = Value(Some(9))]

\* the graph of test::cycle_detection::no_cycle
TestNoCycle ==
    Graph([n \in {"value"} |-> SocketValue("IValue", None)],
          [n \in {"value"} |->
              [ref |-> NodeRef("a", "value"),
               value |-> SocketValue("IValue", None)]],
          [n \in {"a"} |->
              Import("identity", IdentityGraph, GraphRef("value"), "IValue")])

\* the graph of test::cycle_detection::cycle
TestCycle ==
    Graph(EmptyMap,
          [n \in {"value"} |->
              [ref |-> NodeRef("a", "value"),
               value |-> SocketValue("IValue", None)]],
          [n \in {"a", "b"} |->
              Import("identity", IdentityGraph,
                     NodeRef(IF n = "a" THEN "b" ELSE "a", "value"), "IValue")])

Graphs ==
    WiringGraphs \cup ShaderGraphs \cup ImportGraphs
    \cup {AddGraph, PresetGraph, TestNoCycle, TestCycle}

----------------------------------------------------------------------------
(* The programs compiled and the registry of loaded nodes *)

\* most links of a generated program
MaxLinks == 1

\* the parse tree of a program: `|input| -> (output)`, imports, nodes, links
Var(id, ty) == [id |-> id, ty |-> ty]
SignatureDecl(input, output) == [input |-> input, output |-> output]
ImportDecl(alias, name, sig) ==
    [alias |-> alias, name |-> name, signature |-> sig]
NodeDecl(id, ref) == [id |-> id, ref |-> ref]
Field(rule, src, socket) == [rule |-> rule, source |-> src, socket |-> socket]
Link(lhs, rhs) == [lhs |-> lhs, rhs |-> rhs]
Program(sig, imports, nodes, links) ==
    [signature |-> sig, imports |-> imports, nodes |-> nodes, links |-> links]

\* a graph whose output `value` is linked directly to its input `value`
KindIdentity(kind) ==
    Graph([n \in {"value"} |-> SocketValue(kind, None)],
          [n \in {"value"} |->
              [ref |-> GraphRef("value"), value |-> SocketValue(kind, None)]],
          EmptyMap)

\* the registry: `identity` loaded for Value (two candidates of one
\* signature) and for Color, `add` loaded once
Loaded ==
    [n \in {"identity", "add"} |->
        IF n = "identity"
        THEN <<ImportedFrom("identity", IdentityGraph),
               ImportedFrom("identity", KindIdentity("Value")),
               ImportedFrom("identity", KindIdentity("Color"))>>
        ELSE <<ImportedFrom("add", AddGraph)>>]

\* `|value: kin| -> (value: kout)`
UnarySignature(kin, kout) ==
    SignatureDecl(<<Var("value", kin)>>, <<Var("value", kout)>>)

\* `|lhs: Value, rhs: Value| -> (sum: Value)`
AddSignature ==
    SignatureDecl(<<Var("lhs", "Value"), Var("rhs", "Value")>>,
                  <<Var("sum", "Value")>>)

\* a signature that declares the input `value` twice
TwiceSignature ==
    SignatureDecl(<<Var("value", "Value"), Var("value", "Color")>>,
                  <<Var("value", "Value")>>)

\* `|a: Value| -> (a: Value)`, `@IN.a -> @OUT.a`
PassProgram ==
    Program(SignatureDecl(<<Var("a", "Value")>>, <<Var("a", "Value")>>),
            <<>>, <<>>,
            <<Link(Field("meta", "@IN", "a"), Field("meta", "@OUT", "a"))>>)

ImportDecls ==
    {ImportDecl("id", name, sig) :
        name \in {"identity", "add", "noise"},
        sig \in {UnarySignature("Value", "Value"),
                 UnarySignature("Color", "Color"),
                 UnarySignature("Value", "Color"),
                 AddSignature, TwiceSignature}}

\* programs of one or two imports and one node, with the signature of
\* PassProgram or one that declares `a` twice
ImportPrograms ==
    {Program(SignatureDecl(ins, <<Var("a", "Value")>>), imports,
             <<NodeDecl("x", ref)>>, links) :
        ins \in {<<Var("a", "Value")>>,
                 <<Var("a", "Value"), Var("a", "Color")>>},
        imports \in {<<i>> : i \in ImportDecls}
                    \cup {<<ImportDecl("id", "identity", TwiceSignature), i>> :
                             i \in ImportDecls}
                    \cup {<<ImportDecl("id", "identity",
                                       UnarySignature("Color", "Color")), i>> :
                             i \in ImportDecls},
        ref \in {"id", "plus"},
        links \in {<<>>,
                   <<Link(Field("meta", "@IN", "a"), Field("id", "x", "value")),
                     Link(Field("id", "x", "value"),
                          Field("meta", "@OUT", "a"))>>}}

\* the left and the right sides of the links of a generated program
LeftFields ==
    {Field("meta", "@IN", "a"), Field("meta", "@OUT", "a"),
     Field("id", "x", "value"), Field("id", "y", "sum"),
     Field("id", "y", "lhs"), Field("id", "z", "value")}

RightFields ==
    {Field("meta", "@OUT", "a"), Field("meta", "@OUT", "b"),
     Field("meta", "@IN", "a"), Field("id", "x", "value"),
     Field("id", "y", "lhs"), Field("id", "y", "sum")}

Links == {Link(l, r) : l \in LeftFields, r \in RightFields}

LinkSeqs == UNION {[1..n -> Links] : n \in 0..MaxLinks}

\* `|a: Value| -> (out)` with the nodes x (identity of one kind) and y
\* (add) and the links given
WiredProgram(out, kind, links) ==
    Program(SignatureDecl(<<Var("a", "Value")>>, <<out>>),
            <<ImportDecl("id", "identity", UnarySignature(kind, kind)),
              ImportDecl("plus", "add", AddSignature)>>,
            <<NodeDecl("x", "id"), NodeDecl("y", "plus")>>,
            links)

OutputDecls == {Var("a", "Value"), Var("b", "Color")}

\* every program of up to MaxLinks links
LinkPrograms ==
    {WiredProgram(out, kind, links) :
        out \in OutputDecls, kind \in {"Value", "Color"}, links \in LinkSeqs}

\* the programs that link input a to x.value and x.value to the output
ChainPrograms ==
    {WiredProgram(out, kind,
                  <<Link(Field("meta", "@IN", "a"), Field("id", "x", "value")),
                    Link(Field("id", "x", "value"),
                         Field("meta", "@OUT", out.id))>>) :
        out \in OutputDecls, kind \in {"Value", "Color"}}

Programs ==
    {PassProgram} \cup ImportPrograms \cup LinkPrograms \cup ChainPrograms

----------------------------------------------------------------------------
(* The maps whose iteration order a call can observe *)

RECURSIVE OrderKeys(_, _)
OrderKeys(g, p) ==
    {[key |-> OutKey(p), n |-> Cardinality(DOMAIN g.outputs)]}
    \cup {[key |-> NodesKey(p),
           n |-> Cardinality({id \in DOMAIN g.nodes :
                                 g.nodes[id].kind = "Imported"})]}
    \cup {[key |-> InKey(p, id), n |-> Cardinality(DOMAIN g.nodes[id].inputs)] :
             id \in DOMAIN g.nodes}
    \cup UNION {OrderKeys(g.nodes[id].inner, Append(p, id)) :
                   id \in {n \in DOMAIN g.nodes : g.nodes[n].kind = "Imported"}}

\* the iteration orders one call on g can meet
Orders(g) ==
    LET keys == {k \in OrderKeys(g, <<>>) : k.n >= 2}
    IN  {ord \in [{k.key : k \in keys} -> 0..5] :
            \A k \in keys : ord[k.key] < OrderCount(k.n)}

----------------------------------------------------------------------------
(* The program: construct a graph, validate it, run it *)

NoRun == "None"

\* no program compiled, no call made
NoProgram == <<>>
NoCompile == [PErr("", "", "", "") EXCEPT !.tag = "None"]
NoCall == [op |-> "None"]

\* nothing validated, run or called yet
Fresh ==
    /\ vres = NoError
    /\ vseen = <<>>
    /\ vcalls = 0
    /\ runs = 0
    /\ rres = NoRun
    /\ rlog = <<>>
    /\ rins = <<>>
    /\ prevOut = EmptyMap
    /\ prevRes = NoRun
    /\ ranPhase = "None"
    /\ call = NoCall

\* no material built
NoMaterial ==
    /\ selected_outputs = EmptyMap
    /\ recompute = FALSE
    /\ debug_assertions = FALSE
    /\ mlog = <<>>

Init ==
    /\ graph \in Graphs
    /\ phase = "Unvalidated"
    /\ orig = graph
    /\ source = NoProgram
    /\ cres = NoCompile
    /\ Fresh
    /\ NoMaterial

\* validate is a method of Graph<Unvalidated> and takes self by value
CanValidate == phase = "Unvalidated"

\* a faulty variant of CanRun: run offered on every Graph<State>
CanRunAnyState == phase \in {"Unvalidated", "Validated"}

\* run is a method of Graph<Validated>
CanRun == phase = "Validated"

\* the effect of graph.validate() returning res, with the locals st of the
\* checks of the top graph at the time
Validate_(res, st) ==
    /\ vres' = res
    /\ vseen' = st.visited
    /\ phase' = IF res.tag = "Ok" THEN "Validated" ELSE "Dropped"
    /\ graph' = IF res.tag = "Ok" THEN res.ok ELSE graph

\* graph.validate(): the graph is consumed; Ok gives the Validated graph
Validate ==
    /\ CanValidate
    /\ \E ord \in Orders(graph) :
          Validate_(validate(graph, <<>>, ord), CheckOutputs(graph, <<>>, ord))
    /\ vcalls' = vcalls + 1
    /\ UNCHANGED material_vars
    /\ UNCHANGED <<orig, runs, rres, rlog, rins, prevOut, prevRes, ranPhase,
                   source, cres, call>>

\* the effect of graph.run() with outcome ran
Run_(ran) ==
    /\ graph' = ran.g
    /\ rres' = ran.status
    /\ rlog' = [i \in 1..Len(ran.log) |-> ran.log[i].at]
    /\ rins' = [i \in 1..Len(ran.log) |-> ran.log[i].ins]
    /\ phase' = IF ran.status \in {"Panic", "Diverged"} THEN "Panicked"
                ELSE phase

\* graph.run()
Run ==
    /\ CanRun
    /\ runs < MaxRuns
    /\ \E ord \in Orders(graph) : Run_(run(graph, <<>>, ord, 0))
    /\ runs' = runs + 1
    /\ prevOut' = graph.outputs
    /\ prevRes' = rres
    /\ ranPhase' = phase
    /\ UNCHANGED material_vars
    /\ UNCHANGED <<orig, vres, vseen, vcalls, source, cres, call>>

Next == Validate \/ Run

Spec == Init /\ [][Next]_vars

----------------------------------------------------------------------------
(* The program: compile a source, set inputs, validate, run *)

InitCompile ==
    /\ \/ /\ source \in Programs
          /\ graph = EmptyGraph
          /\ phase = "Source"
       \/ /\ source = NoProgram
          /\ graph \in {AddGraph, WrapGraph}
          /\ phase = "Unvalidated"
    /\ orig = graph
    /\ cres = NoCompile
    /\ Fresh
    /\ NoMaterial

\* the effect of parse_program returning res
Compile_(res) ==
    /\ cres' = res
    /\ phase' = IF res.tag = "Ok" THEN "Unvalidated"
                ELSE IF res.tag = "Panic" THEN "Panicked" ELSE "Rejected"
    /\ graph' = IF res.tag = "Ok" THEN res.value ELSE graph
    /\ orig' = graph'

\* parse_shader: the program is compiled against the registry
Compile ==
    /\ phase = "Source"
    /\ Compile_(parse_program(source, Loaded))
    /\ UNCHANGED material_vars
    /\ UNCHANGED <<vres, vseen, vcalls, runs, rres, rlog, rins, prevOut,
                   prevRes, ranPhase, source, call>>

\* Node::set_input on a node of a Graph<Unvalidated>
SetNodeInput ==
    /\ phase = "Unvalidated"
    /\ vcalls + runs = 0
    /\ call.op = "None"
    /\ \E id \in DOMAIN graph.nodes, name \in {"value", "lhs", "nope"},
          socket_ref \in {NoRef, GraphRef("a"), NodeRef("x", "value")} :
          LET set == set_input(graph.nodes[id], name, socket_ref)
          IN  /\ graph' = [graph EXCEPT !.nodes[id] = set.value]
              /\ call' = [op |-> "Node::set_input", node |-> id,
                          name |-> name, arg |-> socket_ref,
                          before |-> graph, res |-> set.res]
    /\ UNCHANGED material_vars
    /\ UNCHANGED <<phase, orig, vres, vseen, vcalls, runs, rres, rlog, rins,
                   prevOut, prevRes, ranPhase, source, cres>>

\* Material::set_input on the Graph<Validated> of a material, before a run
MaterialSetInput ==
    /\ phase = "Validated"
    /\ runs = 0
    /\ call.op # "Material::set_input"
    /\ \E name \in {"a", "lhs", "nope"},
          value \in {Value(Some(7)), SocketValue("Color", Some(1))} :
          LET set == material_set_input(graph, name, value)
          IN  /\ graph' = set.value
              /\ call' = [op |-> "Material::set_input", node |-> "",
                          name |-> name, arg |-> value, before |-> graph,
                          res |-> set.res]
    /\ UNCHANGED material_vars
    /\ UNCHANGED <<phase, orig, vres, vseen, vcalls, runs, rres, rlog, rins,
                   prevOut, prevRes, ranPhase, source, cres>>

NextCompile == Compile \/ SetNodeInput \/ Validate \/ MaterialSetInput \/ Run

SpecCompile == InitCompile /\ [][NextCompile]_vars

----------------------------------------------------------------------------
(* The program: calls of the pure functions *)

\* the payloads of the values converted: one scalar, one vector per length,
\* images of two pixels
Payload(kind) ==
    IF kind = "Value" THEN 2 ELSE IF kind = "Vec2" THEN <<2, 4>>
    ELSE <<3, 6, 9>>

AllKinds == Kinds \cup {ImageKind(kind) : kind \in Kinds}

\* values of every kind, unset and set
ConvertValues ==
    UNION {{SocketValue(kind, None),
            SocketValue(kind, Some(Payload(kind))),
            SocketValue(ImageKind(kind), None),
            SocketValue(ImageKind(kind),
                        Some(<<Payload(kind), Payload(kind)>>))} :
              kind \in Kinds}

\* [(name, value), ..].into_iter().collect() of graph!: the pairs inserted
\* in the order they are written
RECURSIVE Collect(_, _, _)
Collect(pairs, i, map) ==
    IF i > Len(pairs) THEN map
    ELSE Collect(pairs, i + 1, Insert(map, pairs[i][1], pairs[i][2]))

\* the declarations of the inputs and of the outputs of a graph, in order
InputDecls ==
    {<<>>, <<Var("a", "Value")>>, <<Var("a", "Color")>>, <<Var("b", "Value")>>,
     <<Var("a", "Value"), Var("b", "Value")>>,
     <<Var("b", "Value"), Var("a", "Value")>>,
     <<Var("a", "Color"), Var("b", "Value")>>,
     <<Var("b", "Value"), Var("a", "Color")>>}

OutputSeqs ==
    {<<Var("x", "Value")>>, <<Var("x", "Color")>>, <<Var("y", "Value")>>,
     <<Var("x", "Value"), Var("y", "Value")>>,
     <<Var("y", "Value"), Var("x", "Value")>>}

\* graph! { inputs: ins, nodes: .., outputs: outs }: without nodes and the
\* outputs set, or with the node `id` that every output is linked to
DeclaredGraph(ins, outs, wired) ==
    Graph(Collect([i \in DOMAIN ins |-> <<ins[i].id, FromType(ins[i].ty)>>],
                  1, EmptyMap),
          Collect([i \in DOMAIN outs |->
                      <<outs[i].id,
                        IF wired
                        THEN [ref |-> NodeRef("id", "value"),
                              value |-> FromType(outs[i].ty)]
                        ELSE [ref |-> NoRef,
                              value |-> set_default(FromType(outs[i].ty))]>>],
                  1, EmptyMap),
          IF wired THEN [n \in {"id"} |-> WiredNode(<<>>, "Sum")]
          ELSE EmptyMap)

\* one side of a comparison of signatures: the declarations, the graph, and
\* the signature of the graph wrapped as an imported node
Wrapped(ins, outs, wired) ==
    [ins |-> ins, outs |-> outs, graph |-> DeclaredGraph(ins, outs, wired),
     signature |->
        ImportedNodeSignature(ImportedFrom("g",
                                           DeclaredGraph(ins, outs, wired)))]

\* ImportedNode::from((name, a)).signature() == ..from((name, b)).signature()
CompareSignatures ==
    /\ call = NoCall
    /\ \E ia \in InputDecls, oa \in OutputSeqs, wa \in BOOLEAN,
          ib \in InputDecls, ob \in OutputSeqs, wb \in BOOLEAN :
          call' = [op |-> "signature", a |-> Wrapped(ia, oa, wa),
                   b |-> Wrapped(ib, ob, wb),
                   res |-> (Wrapped(ia, oa, wa).signature
                            = Wrapped(ib, ob, wb).signature)]
    /\ UNCHANGED material_vars
    /\ UNCHANGED <<graph, phase, orig, vres, vseen, vcalls, runs, rres, rlog,
                   rins, prevOut, prevRes, ranPhase, source, cres>>

\* the signatures asked for: one input and one output `value` of any two of
\* three kinds, and the signature of add
AskedSignatures ==
    {parse_signature(UnarySignature(kin, kout)).value :
        kin \in {"Value", "Color", "Vec3"}, kout \in {"Value", "Color", "Vec3"}}
    \cup {parse_signature(AddSignature).value}

\* get_loaded(loaded, name, signature, rule, section)
GetLoaded ==
    /\ call = NoCall
    /\ \E name \in {"identity", "add", "noise"}, sig \in AskedSignatures,
          section \in {"Imports", "Nodes"} :
          call' = [op |-> "get_loaded", name |-> name, signature |-> sig,
                   section |-> section,
                   res |-> get_loaded(Loaded, name, sig, section)]
    /\ UNCHANGED material_vars
    /\ UNCHANGED <<graph, phase, orig, vres, vseen, vcalls, runs, rres, rlog,
                   rins, prevOut, prevRes, ranPhase, source, cres>>

InitFn ==
    /\ graph = EmptyGraph
    /\ phase = "None"
    /\ orig = graph
    /\ source = NoProgram
    /\ cres = NoCompile
    /\ Fresh
    /\ NoMaterial

\* value.try_convert(target)
TryConvert ==
    /\ call = NoCall
    /\ \E value \in ConvertValues, target \in AllKinds :
          call' = [op |-> "try_convert", value |-> value, target |-> target,
                   res |-> try_convert(value, target)]
    /\ UNCHANGED material_vars
    /\ UNCHANGED <<graph, phase, orig, vres, vseen, vcalls, runs, rres, rlog,
                   rins, prevOut, prevRes, ranPhase, source, cres>>

NextFn == TryConvert \/ CompareSignatures \/ GetLoaded

SpecFn == InitFn /\ [][NextFn]_vars

----------------------------------------------------------------------------
(* The program: build a material from a validated graph, update it, set its
   inputs, read it (material.rs) *)

\* StandardMaterialOutput
StandardMaterialOutput ==
    {"Color", "Diffuse", "Specular", "SpecularPower", "Reflection"}

\* Material {selected_outputs, graph, recompute}
Material(selected, g, flag) ==
    [selected_outputs |-> selected, graph |-> g, recompute |-> flag]

\* From<(Graph<Validated>, HashMap<StandardMaterialOutput, Name>)>
MaterialFrom(g, selected) == Material(selected, g, TRUE)

\* #[derive(Default)] of Material
MaterialDefault == Material(EmptyMap, EmptyGraph, FALSE)

\* the block of update under #[cfg(debug_assertions)]: the selected Color
\* output of the graph holds a value that is not an IColor (`_ => panic!()`)
ColorPanics(g, selected) ==
    /\ "Color" \in DOMAIN selected
    /\ selected["Color"] \in DOMAIN g.outputs
    /\ g.outputs[selected["Color"]].value.kind # "IColor"

\* what update leaves: the graph, the flag, the outcome of graph.run() and
\* the result of update
Updated(g, flag, ran, res) ==
    [g |-> g, recompute |-> flag, run |-> ran, res |-> res]

\* update past `if self.recompute { ... }`, where graph.run() left `ran`
UpdateRan(ran, flag, selected, debug) ==
    IF ran.status = "Err" THEN Updated(ran.g, flag, "Err", "Err")
    ELSE IF ran.status # "Ok" THEN Updated(ran.g, flag, ran.status, "Panic")
    ELSE IF debug /\ ColorPanics(ran.g, selected)
    THEN Updated(ran.g, FALSE, IF flag THEN "Ok" ELSE "None", "Panic")
    ELSE Updated(ran.g, FALSE, IF flag THEN "Ok" ELSE "None", "Ok")

\* a faulty variant of update: the graph is run whatever the flag
UpdateAlways(g, flag, selected, debug, ord) ==
    UpdateRan(run(g, <<>>, ord, 0), TRUE, selected, debug)

\* Material::update
update(g, flag, selected, debug, ord) ==
    IF flag THEN UpdateRan(run(g, <<>>, ord, 0), flag, selected, debug)
    ELSE UpdateRan(Ran(g, "Ok", <<>>), flag, selected, debug)

\* Material::get(x, y): per standard output, the pixel of the selected graph
\* output if it holds an image of the kind read (IColor for Color, IValue
\* for the others); the images of the graphs considered have one pixel, which
\* mod_get returns for every x and y
get(g, selected) ==
    [k \in StandardMaterialOutput |->
        IF /\ k \in DOMAIN selected
           /\ selected[k] \in DOMAIN g.outputs
           /\ g.outputs[selected[k]].value.kind =
                 (IF k = "Color" THEN "IColor" ELSE "IValue")
        THEN g.outputs[selected[k]].value.val
        ELSE None]

\* a graph of one node a that reads the graph input `in` and writes an
\* image, the graph output o1
ShadeGraph(kind, in, shader) ==
    Graph([n \in {"in"} |-> SocketValue(kind, in)],
          [n \in {"o1"} |->
              [ref |-> NodeRef("a", "value"), value |-> SocketValue(kind, None)]],
          [id \in {"a"} |->
              GraphNode([n \in {"x"} |-> [ref |-> GraphRef("in"), type |-> kind]],
                        [n \in {"value"} |-> SocketValue(kind, None)],
                        shader)])

ShadeGraphs ==
    {ShadeGraph(kind, in, shader) :
        kind \in {"IValue", "IColor"}, in \in {None, Some(2)},
        shader \in Shaders}

\* the graphs materials are built from: the Graph<Validated> that validate
\* returns
MaterialGraphs ==
    {r.ok : r \in {v \in UNION {{validate(g, <<>>, ord) : ord \in Orders(g)} :
                                   g \in ShadeGraphs
                                         \cup {AddGraph, PresetGraph,
                                               TestNoCycle}} :
                      v.tag = "Ok"}}

\* the selections of a material of graph g: none, or one output of g as the
\* Color, or one as the Diffuse
Selections(g) ==
    {EmptyMap} \cup {[k \in {kind} |-> o] :
                        kind \in {"Color", "Diffuse"}, o \in DOMAIN g.outputs}

Materials ==
    {MaterialDefault}
    \cup UNION {{MaterialFrom(g, selected) : selected \in Selections(g)} :
                   g \in MaterialGraphs}

\* one call made on the material: the flag before it, whether and how
\* graph.run() ended in it, its result, and the inputs and outputs of the
\* graph after it
MaterialCall(op, name, ran, res, g, bundle) ==
    [op |-> op, name |-> name, flag |-> recompute, run |-> ran, res |-> res,
     inputs |-> g.inputs, outputs |-> g.outputs, bundle |-> bundle]

NoBundle == [k \in StandardMaterialOutput |-> None]

InitMaterial ==
    /\ \E m \in Materials :
          /\ graph = m.graph
          /\ selected_outputs = m.selected_outputs
          /\ recompute = m.recompute
    /\ debug_assertions \in BOOLEAN
    /\ mlog = <<>>
    /\ phase = "Validated"
    /\ orig = graph
    /\ source = NoProgram
    /\ cres = NoCompile
    /\ Fresh

\* the effect of material.update() with outcome u
Update_(u) ==
    /\ graph' = u.g
    /\ recompute' = u.recompute
    /\ phase' = IF u.res = "Panic" THEN "Panicked" ELSE phase
    /\ mlog' = Append(mlog, MaterialCall("update", "", u.run, u.res, u.g,
                                         NoBundle))

\* material.update()
Update ==
    /\ phase = "Validated"
    /\ Len(mlog) < MaxCalls
    /\ \E ord \in Orders(graph) :
          Update_(update(graph, recompute, selected_outputs, debug_assertions,
                         ord))
    /\ UNCHANGED <<orig, vres, vseen, vcalls, runs, rres, rlog, rins, prevOut,
                   prevRes, ranPhase, source, cres, call, selected_outputs,
                   debug_assertions>>

\* the effect of material.set_input(name, value) with outcome set
SetInput_(name, set) ==
    /\ graph' = set.value
    /\ mlog' = Append(mlog, MaterialCall("set_input", name, "None",
                                         set.res.tag, set.value, NoBundle))

\* material.set_input(name, value), at any time
SetInput ==
    /\ phase = "Validated"
    /\ Len(mlog) < MaxCalls
    /\ \E name \in {"in", "lhs", "nope"} :
          SetInput_(name, material_set_input(graph, name,
                                             SocketValue("IValue", Some(7))))
    /\ UNCHANGED <<phase, orig, vres, vseen, vcalls, runs, rres, rlog, rins,
                   prevOut, prevRes, ranPhase, source, cres, call,
                   selected_outputs, recompute, debug_assertions>>

\* material.get(x, y)
Get ==
    /\ phase = "Validated"
    /\ Len(mlog) < MaxCalls
    /\ mlog' = Append(mlog, MaterialCall("get", "", "None", "Ok", graph,
                                         get(graph, selected_outputs)))
    /\ UNCHANGED <<graph, phase, orig, vres, vseen, vcalls, runs, rres, rlog,
                   rins, prevOut, prevRes, ranPhase, source, cres, call,
                   selected_outputs, recompute, debug_assertions>>

NextMaterial == Update \/ SetInput \/ Get

SpecMaterial == InitMaterial /\ [][NextMaterial]_vars

----------------------------------------------------------------------------
(* What the claims speak about: links, reachability, cycles *)

Last(s) == s[Len(s)]

\* the NodeIds the inputs of node id of g are linked to
LinkedIds(g, id) ==
    {inputs(g.nodes[id])[n].ref.node :
        n \in {m \in DOMAIN inputs(g.nodes[id]) :
                  inputs(g.nodes[id])[m].ref.tag = "Node"}}

\* the NodeIds the outputs of g are linked to
OutputIds(g) ==
    {g.outputs[o].ref.node :
        o \in {m \in DOMAIN g.outputs : g.outputs[m].ref.tag = "Node"}}

\* the nodes of g reachable from the nodes S along input links
RECURSIVE ReachFrom(_, _)
ReachFrom(g, S) ==
    LET T == S \cup (UNION {LinkedIds(g, id) : id \in S} \cap DOMAIN g.nodes)
    IN  IF T = S THEN S ELSE ReachFrom(g, T)

\* node id lies on a directed cycle of input links
OnCycle(g, id) ==
    /\ id \in DOMAIN g.nodes
    /\ id \in ReachFrom(g, LinkedIds(g, id) \cap DOMAIN g.nodes)

\* the nodes reachable from some output of g
FromOutputs(g) == ReachFrom(g, OutputIds(g) \cap DOMAIN g.nodes)

\* some output is linked to a node from which a cycle can be reached
CycleReachable(g) == \E id \in FromOutputs(g) : OnCycle(g, id)

HasCycle(g) == \E id \in DOMAIN g.nodes : OnCycle(g, id)

\* the outputs that are neither linked nor set
UnlinkedUnset(g) ==
    {o \in DOMAIN g.outputs :
        g.outputs[o].ref.tag = "None" /\ is_none(g.outputs[o].value)}

\* some output or node input of g is linked to a NodeId g does not define
DanglingLink(g) ==
    \/ \E id \in DOMAIN g.nodes : ~(LinkedIds(g, id) \subseteq DOMAIN g.nodes)
    \/ ~(OutputIds(g) \subseteq DOMAIN g.nodes)

\* some output, or some node reachable from an output, is linked to a NodeId
\* g does not define
DanglingReachable(g) ==
    \/ \E id \in FromOutputs(g) : ~(LinkedIds(g, id) \subseteq DOMAIN g.nodes)
    \/ ~(OutputIds(g) \subseteq DOMAIN g.nodes)

\* g and every imported sub-graph of it: no cycle, no dangling link, every
\* output linked or set
RECURSIVE WellFormed(_)
WellFormed(g) ==
    /\ ~HasCycle(g)
    /\ ~DanglingLink(g)
    /\ UnlinkedUnset(g) = {}
    /\ \A id \in DOMAIN g.nodes :
          g.nodes[id].kind = "Imported" => WellFormed(g.nodes[id].inner)

Validated == vcalls > 0

\* g and the sub-graphs of its Imported nodes, at every depth
RECURSIVE GraphsOf(_)
GraphsOf(g) ==
    {g} \cup UNION {GraphsOf(g.nodes[id].inner) :
                       id \in {n \in DOMAIN g.nodes :
                                  g.nodes[n].kind = "Imported"}}

\* the node of g at the end of a path of node ids through Imported nodes
RECURSIVE NodeAt(_, _)
NodeAt(g, path) ==
    IF Len(path) = 1 THEN g.nodes[path[1]]
    ELSE NodeAt(g.nodes[path[1]].inner, Tail(path))

\* how often the last run invoked the shader of the node at path
Invocations(path) == Cardinality({i \in 1..Len(rlog) : rlog[i] = path})

----------------------------------------------------------------------------
(* C1 *)

\* C1 as claimed: for a graph with a cycle reachable from an output, validate
\* returns a Cycle error.
C1_CycleAlwaysReported ==
    (Validated /\ CycleReachable(orig)) => vres.tag = "Cycle"

\* C1 (amended): validate never returns a Validated graph for a graph with a
\* cycle reachable from an output; the error is a Cycle error unless some
\* output is unlinked and unset, and then it is a Cycle error or the
\* UnlinkeUnsetdGraphOutput error of such an output.
C1_CycleNeverValidated ==
    (Validated /\ CycleReachable(orig)) =>
        \/ vres.tag = "Cycle"
        \/ /\ vres.tag = "UnlinkeUnsetdGraphOutput"
           /\ vres.output \in UnlinkedUnset(orig)

\* validate has reported a cycle of two or more nodes
C1_Witness ==
    /\ Validated /\ CycleReachable(orig)
    /\ vres.tag = "Cycle"
    /\ Len(vres.during) >= 2

----------------------------------------------------------------------------
(* C2 *)

\* C2: for a graph without cycle, without link to a missing node and with
\* every output linked or set (sub-graphs included), validate returns Ok.
C2_AcyclicValidates ==
    (Validated /\ WellFormed(orig)) => vres.tag = "Ok"

----------------------------------------------------------------------------
(* C3 *)

----------------------------------------------------------------------------
(* C4 *)

\* C4: after a second run that returns Ok, the outputs map is the one the
\* first run left (prevOut is the map the second run started from).
C4_SecondRunSameOutputs ==
    (runs = 2 /\ rres = "Ok") => graph.outputs = prevOut

----------------------------------------------------------------------------
(* C5 *)

----------------------------------------------------------------------------
(* C6 *)

\* C6: no run of a Validated graph exceeds the recursion depth MaxDepth,
\* which no terminating run of the graphs considered needs; a run that ends
\* in a panic has terminated.
C6_RunTerminates == runs > 0 => rres # "Diverged"

\* a run through an Imported node whose sub-graph holds an Imported node
C6_Witness ==
    /\ rres = "Ok"
    /\ \E i \in 1..Len(rlog) : Len(rlog[i]) >= 3

----------------------------------------------------------------------------
(* C7 *)

\* C7: the graph validate returns with Ok equals the graph it consumed:
\* inputs, outputs and nodes, sub-graphs included.
C7_ValidateKeepsContent == vres.tag = "Ok" => vres.ok = orig

\* validate returned Ok for a graph with an Imported node that has a linked
\* input
C7_Witness ==
    /\ vres.tag = "Ok"
    /\ \E id \in DOMAIN orig.nodes :
          /\ orig.nodes[id].kind = "Imported"
          /\ \E n \in DOMAIN orig.nodes[id].inputs :
                orig.nodes[id].inputs[n].ref.tag = "Node"

----------------------------------------------------------------------------
(* C8 *)

\* C8: no Validated graph has an output, or a node reachable from an output,
\* linked to a NodeId the graph does not define.
C8_NoDanglingLinkValidated ==
    (Validated /\ vres.tag = "Ok") => ~DanglingReachable(orig)

----------------------------------------------------------------------------
(* C9 *)

\* C9: for a graph with an output that is neither linked nor set, validate
\* does not return Ok, and returns the UnlinkeUnsetdGraphOutput error of
\* such an output when the graph has no cycle; the error never names an
\* output that is linked or set.
C9_UnlinkedUnsetReported ==
    /\ (Validated /\ UnlinkedUnset(orig) # {}) =>
          /\ vres.tag # "Ok"
          /\ ~HasCycle(orig) =>
                /\ vres.tag = "UnlinkeUnsetdGraphOutput"
                /\ vres.output \in UnlinkedUnset(orig)
    /\ vres.tag = "UnlinkeUnsetdGraphOutput" =>
          \E h \in GraphsOf(orig) : vres.output \in UnlinkedUnset(h)

----------------------------------------------------------------------------
(* C10 *)

----------------------------------------------------------------------------
(* C11 *)

\* C11: after a run that returns Ok, every declared output without a link is
\* in the outputs map and holds the default value of its kind.
C11_UnlinkedOutputDefaulted ==
    (runs > 0 /\ rres = "Ok") =>
        \A o \in DOMAIN orig.outputs :
            orig.outputs[o].ref.tag = "None" =>
                /\ o \in DOMAIN graph.outputs
                /\ graph.outputs[o].value =
                      set_default(FromType(TypeOf(orig.outputs[o].value)))

----------------------------------------------------------------------------
(* C12 *)

\* every node of g is a primitive node
PrimitiveOnly(g) == \A id \in DOMAIN g.nodes : g.nodes[id].kind = "Graph"

\* the outputs the shading function of primitive node id writes when it is
\* called with the computed values of the node's inputs
RECURSIVE Computed(_, _)
Computed(g, id) ==
    ShaderCall(g.nodes[id].shader,
               [n \in DOMAIN g.nodes[id].inputs |->
                   IF g.nodes[id].inputs[n].ref.tag = "Node"
                   THEN Computed(g, g.nodes[id].inputs[n].ref.node)
                            [g.nodes[id].inputs[n].ref.name]
                   ELSE IF g.nodes[id].inputs[n].ref.tag = "Graph"
                   THEN g.inputs[g.nodes[id].inputs[n].ref.name]
                   ELSE FromType(g.nodes[id].inputs[n].type)],
               g.nodes[id].outputs).outputs

\* C12: after a run of a graph of primitive nodes that returns Ok, every
\* output that was unset and is linked to a node output holds the value the
\* node's shading function writes for the computed values of its inputs; for
\* the graph of the add node with lhs = 2 and rhs = 3, output sum is 5.
C12_LinkedOutputHoldsComputed ==
    /\ (runs > 0 /\ rres = "Ok" /\ PrimitiveOnly(orig)) =>
          \A o \in DOMAIN prevOut :
              (is_none(prevOut[o].value) /\ prevOut[o].ref.tag = "Node") =>
                  /\ o \in DOMAIN graph.outputs
                  /\ graph.outputs[o].value =
                        Computed(orig, prevOut[o].ref.node)[prevOut[o].ref.name]
    /\ (runs = 1 /\ rres = "Ok" /\ orig = AddGraph) =>
          graph.outputs["sum"].value = Value(Some(5))

\* the graph of the add node has been run and its output sum is 5
C12_Witness ==
    /\ orig = AddGraph
    /\ runs = 1 /\ rres = "Ok"
    /\ rlog = <<(<<"add">>)>>
    /\ graph.outputs["sum"].value = Value(Some(5))

----------------------------------------------------------------------------
(* C13 *)

\* C13: after a run that returns Ok, every graph output linked directly to a
\* graph input holds a copy of the value that input had when run was called.
C13_DirectOutputHoldsInput ==
    (runs > 0 /\ rres = "Ok") =>
        \A o \in DOMAIN prevOut :
            (prevOut[o].ref.tag = "Graph"
             /\ prevOut[o].ref.name \in DOMAIN graph.inputs) =>
                /\ o \in DOMAIN graph.outputs
                /\ graph.outputs[o].value = graph.inputs[prevOut[o].ref.name]

\* the round trip of C13: `|a: Value| -> (a: Value)` with `@IN.a -> @OUT.a`
\* compiles to a graph whose output a is linked to input a, which validates,
\* and whose first run after set_input("a", 7) leaves output a = 7
C13_RoundTrip ==
    (source = PassProgram /\ phase # "Source") =>
        /\ cres.tag = "Ok"
        /\ orig.outputs["a"].ref = GraphRef("a")
        /\ vcalls > 0 => vres.tag = "Ok"
        /\ (runs = 1 /\ call.op = "Material::set_input" /\ call.name = "a"
            /\ call.arg = Value(Some(7))) =>
               /\ rres = "Ok"
               /\ graph.outputs["a"].value = Value(Some(7))

\* the round trip made: compiled, validated, a set to 7, run once
C13_RoundTripMade ==
    /\ source = PassProgram
    /\ runs = 1 /\ rres = "Ok"
    /\ call.op = "Material::set_input" /\ call.arg = Value(Some(7))
    /\ graph.outputs["a"].value = Value(Some(7))

----------------------------------------------------------------------------
(* C14 *)

----------------------------------------------------------------------------
(* C15 *)

\* the kinds of the sockets a link of g can read: the output of a node of g,
\* or a graph input (no kind when the socket does not exist)
ProducerKinds(g, socket_ref) ==
    IF socket_ref.tag = "Graph"
    THEN {TypeOf(g.inputs[n]) : n \in DOMAIN g.inputs \cap {socket_ref.name}}
    ELSE IF socket_ref.tag = "Node"
    THEN {signature(g.nodes[id]).output[socket_ref.name] :
             id \in {i \in DOMAIN g.nodes \cap {socket_ref.node} :
                        socket_ref.name \in DOMAIN signature(g.nodes[i]).output}}
    ELSE {}

\* every linked node input and every linked output of g has the kind of the
\* socket it is linked to
KindsMatch(g) ==
    /\ \A id \in DOMAIN g.nodes : \A n \in DOMAIN g.nodes[id].inputs :
          ProducerKinds(g, g.nodes[id].inputs[n].ref)
              \subseteq {g.nodes[id].inputs[n].type}
    /\ \A o \in DOMAIN g.outputs :
          ProducerKinds(g, g.outputs[o].ref)
              \subseteq {TypeOf(g.outputs[o].value)}

\* C15: in every graph the compiler returns, validated or not yet, each
\* linked node input and each linked graph output has the kind of the socket
\* it is linked to.
C15_LinkKindsMatch ==
    (cres.tag = "Ok" /\ call = NoCall /\ runs = 0
     /\ phase \in {"Unvalidated", "Validated"}) => KindsMatch(graph)

\* C15, for the validated graphs only
C15_ValidatedKindsMatch ==
    (cres.tag = "Ok" /\ call = NoCall /\ runs = 0 /\ phase = "Validated") =>
        KindsMatch(graph)

----------------------------------------------------------------------------
(* C16 *)

\* the conversion table of C16: Value to Vec2, Vec3 or Color; Vec2 to Value;
\* Vec3 to Value or Color; Color to Value or Vec3; the same between images
ListedPairs ==
    {<<"Value", "Vec2">>, <<"Value", "Vec3">>, <<"Value", "Color">>,
     <<"Vec2", "Value">>, <<"Vec3", "Value">>, <<"Vec3", "Color">>,
     <<"Color", "Value">>, <<"Color", "Vec3">>,
     <<"IValue", "IVec2">>, <<"IValue", "IVec3">>, <<"IValue", "IColor">>,
     <<"IVec2", "IValue">>, <<"IVec3", "IValue">>, <<"IVec3", "IColor">>,
     <<"IColor", "IValue">>, <<"IColor", "IVec3">>}

\* C16: try_convert(v, t) succeeds exactly when (kind of v, t) is a listed
\* pair, and a successful conversion gives a value of kind t.
C16_ConvertsExactlyListed ==
    call.op = "try_convert" =>
        /\ call.res.tag = "Ok" <=>
              <<TypeOf(call.value), call.target>> \in ListedPairs
        /\ call.res.tag = "Ok" => TypeOf(call.res.value) = call.target

\* the scalar 2 has been converted to the Color (2, 2, 2)
C16_Witness ==
    /\ call.op = "try_convert"
    /\ call.value = SocketValue("Value", Some(2))
    /\ call.target = "Color"
    /\ call.res = ConvertOk(SocketValue("Color", Some(<<2, 2, 2>>)))

----------------------------------------------------------------------------
(* C17 *)

\* the name-and-kind set of declarations
NameKinds(decls) == {<<decls[i].id, decls[i].ty>> : i \in DOMAIN decls}

\* C17: the signatures of two graphs wrapped as imported nodes are equal
\* exactly when the graphs have the same input name-and-kind set and the same
\* output name-and-kind set, whatever their nodes, their wiring and the order
\* of their declarations.
C17_SignatureEquality ==
    call.op = "signature" =>
        (call.res <=> /\ NameKinds(call.a.ins) = NameKinds(call.b.ins)
                      /\ NameKinds(call.a.outs) = NameKinds(call.b.outs))

\* two graphs of different wiring, declared in different orders, compared
\* equal; and two that differ in the kind of one input compared unequal
C17_Witness ==
    /\ call.op = "signature"
    /\ call.a.ins = <<Var("a", "Value"), Var("b", "Value")>>
    /\ call.b.ins = <<Var("b", "Value"), Var("a", "Value")>>
    /\ call.a.outs # call.b.outs
    /\ call.a.graph.nodes # call.b.graph.nodes
    /\ call.res

----------------------------------------------------------------------------
(* C18 *)

\* the candidates loaded under name whose signature is sig
Candidates(name, sig) ==
    IF name \notin DOMAIN Loaded THEN {}
    ELSE {l \in {Loaded[name][i] : i \in DOMAIN Loaded[name]} :
             ImportedNodeSignature(l) = sig}

\* C18: get_loaded returns a candidate loaded under the name whose signature
\* equals the requested one; when the name is not loaded at all the error is
\* Undefined with variant Undefined, when it is loaded without a candidate of
\* that signature the error is Undefined with variant NoSignatureOverload.
C18_ImportResolution ==
    call.op = "get_loaded" =>
        /\ call.name \notin DOMAIN Loaded =>
              call.res = PErr("Undefined", "Undefined", call.name, call.section)
        /\ (call.name \in DOMAIN Loaded
            /\ Candidates(call.name, call.signature) = {}) =>
              call.res = PErr("Undefined", "NoSignatureOverload", call.name,
                              call.section)
        /\ Candidates(call.name, call.signature) # {} =>
              /\ call.res.tag = "Ok"
              /\ call.res.value \in Candidates(call.name, call.signature)
        /\ call.res.tag = "Ok" =>
              ImportedNodeSignature(call.res.value) = call.signature

\* identity asked for with the Color signature: the third candidate loaded
\* under the name is returned, the two of the Value signature are passed over
C18_Witness ==
    /\ call.op = "get_loaded"
    /\ call.name = "identity"
    /\ call.signature = parse_signature(UnarySignature("Color", "Color")).value
    /\ call.res = POk(Loaded["identity"][3])

----------------------------------------------------------------------------
(* C19 *)

\* the signature and the nodes of the program compiled, when its signature,
\* imports and nodes compile
Declared(program) ==
    LET sig == parse_signature(program.signature)
        imports == parse_imports(program.imports, Loaded)
    IN  IF sig.tag # "Ok" \/ imports.tag # "Ok" THEN {}
        ELSE LET nodes == parse_nodes(program.nodes, Loaded, imports.value)
             IN  IF nodes.tag # "Ok" THEN {}
                 ELSE {[signature |-> sig.value, nodes |-> nodes.value]}

\* the field is a producer: a declared graph input or an output of a node
Producer(field, d) ==
    IF field.rule = "meta"
    THEN field.source = "@IN" /\ field.socket \in DOMAIN d.signature.input
    ELSE /\ field.source \in DOMAIN d.nodes
         /\ field.socket \in DOMAIN signature(d.nodes[field.source]).output

\* the field is a consumer: a declared graph output or an input of a node
Consumer(field, d) ==
    IF field.rule = "meta"
    THEN field.source = "@OUT" /\ field.socket \in DOMAIN d.signature.output
    ELSE /\ field.source \in DOMAIN d.nodes
         /\ field.socket \in DOMAIN signature(d.nodes[field.source]).input

\* a link from a consumer, or from a producer to a producer
WrongSided(link, d) ==
    \/ Consumer(link.lhs, d) /\ ~Producer(link.lhs, d)
    \/ /\ Producer(link.lhs, d)
       /\ Producer(link.rhs, d) /\ ~Consumer(link.rhs, d)

\* C19: compiling a program whose first link has a consumer on the left, or
\* a producer on both sides, fails with the SideMismatch error.
C19_SideMismatchReported ==
    (source # NoProgram /\ phase # "Source") =>
        \A d \in Declared(source) :
            (source.links # <<>> /\ WrongSided(source.links[1], d)) =>
                cres = PErr("SideMismatch", "", "", "Links")

\* C19, second part: a program with a link from a consumer, or between two
\* producers, does not compile, so that no graph records such a link
C19_WrongSidedNeverCompiled ==
    (source # NoProgram /\ phase # "Source") =>
        \A d \in Declared(source) :
            (\E i \in DOMAIN source.links : WrongSided(source.links[i], d)) =>
                cres.tag = "Err"

\* C19 for the graph boundary: `@OUT.x` on the left or `@IN.x` on the right
\* of the first link is a SideMismatch error
C19_BoundaryMismatchReported ==
    (source # NoProgram /\ phase # "Source") =>
        \A d \in Declared(source) :
            (/\ source.links # <<>>
             /\ \/ /\ source.links[1].lhs.rule = "meta"
                   /\ source.links[1].lhs.source = "@OUT"
                \/ /\ Producer(source.links[1].lhs, d)
                   /\ source.links[1].rhs.rule = "meta"
                   /\ source.links[1].rhs.source = "@IN") =>
                cres = PErr("SideMismatch", "", "", "Links")

----------------------------------------------------------------------------
(* C20 *)

\* the graph is as the last setter call left it
JustSet(op) ==
    /\ call.op = op
    /\ vcalls = 0 \/ op = "Material::set_input"
    /\ runs = 0

\* C20, unknown names: a setter called with a name that is not a declared
\* input returns Missing(Input, name) and leaves the node or graph unchanged.
C20_UnknownNameRejected ==
    /\ (JustSet("Node::set_input")
        /\ call.name \notin DOMAIN call.before.nodes[call.node].inputs) =>
          call.res = Missing("Input", call.name) /\ graph = call.before
    /\ (JustSet("Material::set_input")
        /\ call.name \notin DOMAIN call.before.inputs) =>
          call.res = Missing("Input", call.name) /\ graph = call.before

\* C20, Node::set_input on a declared name: only the link of that input is
\* replaced
C20_NodeLinkReplaced ==
    (JustSet("Node::set_input")
     /\ call.name \in DOMAIN call.before.nodes[call.node].inputs) =>
        /\ call.res = SetOk
        /\ graph = [call.before EXCEPT
                       !.nodes[call.node].inputs[call.name].ref = call.arg]

\* C20: the setters reject unknown names without a change, and on a declared
\* name replace only that input's link (Node::set_input) or value
\* (Material::set_input) and leave its declared type, every other input, the
\* outputs and the nodes unchanged.
C20_SettersChangeOneInput ==
    /\ C20_UnknownNameRejected
    /\ C20_NodeLinkReplaced
    /\ (JustSet("Material::set_input")
        /\ call.name \in DOMAIN call.before.inputs) =>
          /\ call.res = SetOk
          /\ graph.inputs[call.name] = call.arg
          /\ TypeOf(graph.inputs[call.name])
                = TypeOf(call.before.inputs[call.name])
          /\ graph = [call.before EXCEPT !.inputs[call.name] = call.arg]

----------------------------------------------------------------------------
(* C21 *)

\* C21: a run that returns Ok keeps the set of output names, and every output
\* that carried a value before the run is in the outputs map after it with
\* the same link and value (prevOut is the map the run started from).
C21_SetOutputsKept ==
    (runs > 0 /\ rres = "Ok") =>
        /\ DOMAIN graph.outputs = DOMAIN prevOut
        /\ \A o \in DOMAIN prevOut :
              ~is_none(prevOut[o].value) =>
                  /\ o \in DOMAIN graph.outputs
                  /\ graph.outputs[o] = prevOut[o]

----------------------------------------------------------------------------
(* C22 *)

\* C22: the path of a Cycle error is a walk along input links: it starts at
\* a node a graph output is linked to, every node of it is linked as an
\* input of the node before it, it contains the detected node, and the input
\* source_socket of its last node is linked to the output target_socket of
\* the detected node. For the two nodes a and b of test cycle_detection::cycle
\* the error is Cycle([a, b], value, value, a).
C22_DuringIsWalk ==
    /\ vres.tag = "Cycle" =>
          \E h \in GraphsOf(orig) :
              /\ vres.during # <<>>
              /\ vres.during[1] \in OutputIds(h)
              /\ \A i \in 1..(Len(vres.during) - 1) :
                    /\ vres.during[i] \in DOMAIN h.nodes
                    /\ vres.during[i + 1] \in LinkedIds(h, vres.during[i])
              /\ Contains(vres.during, vres.detected)
              /\ Last(vres.during) \in DOMAIN h.nodes
              /\ vres.source_socket \in
                    DOMAIN inputs(h.nodes[Last(vres.during)])
              /\ inputs(h.nodes[Last(vres.during)])[vres.source_socket].ref =
                    NodeRef(vres.detected, vres.target_socket)
    /\ (Validated /\ orig = TestCycle) =>
          vres = Cycle(<<"a", "b">>, "value", "value", "a")

\* C22, the instance of the test alone
C22_TestCycle ==
    (Validated /\ orig = TestCycle) =>
        vres = Cycle(<<"a", "b">>, "value", "value", "a")

----------------------------------------------------------------------------
(* C23 *)

\* C23: one validate call expands every node at most once: the list of the
\* nodes it expanded (visited, to which a node is pushed when it is popped
\* from the work list and pushed on the path) names no node twice.
C23_ExpandedOnce ==
    \A i, j \in 1..Len(vseen) : vseen[i] = vseen[j] => i = j

----------------------------------------------------------------------------
(* C24 *)

\* the Imported nodes of g
ImportedIds(g) == {id \in DOMAIN g.nodes : g.nodes[id].kind = "Imported"}

\* the errors the checks of the outputs of g can end with, over the
\* iteration orders a call can meet
OuterErrors(g) ==
    {CheckOutputs(g, <<>>, ord).err : ord \in Orders(g)} \ {NoError}

\* the errors the validation of the sub-graphs of g can end with
InnerErrors(g) ==
    {validate(g.nodes[id].inner, <<id>>, ord) :
        id \in ImportedIds(g), ord \in Orders(g)}
    \ {r \in {validate(g.nodes[id].inner, <<id>>, ord) :
                 id \in ImportedIds(g), ord \in Orders(g)} : r.tag = "Ok"}

\* C24: validate returns Ok only if the sub-graph of every Imported node, at
\* every depth, has every output linked or set and no cycle reachable from an
\* output; when the checks of the outer outputs pass, validate returns Ok or
\* the error of the validation of a sub-graph; and when the checks of the outer
\* outputs fail in every iteration order, validate returns the error of the
\* outer graph, whatever the sub-graphs hold.
C24_SubGraphsValidated ==
    Validated =>
        /\ vres.tag = "Ok" =>
              \A h \in GraphsOf(orig) :
                  UnlinkedUnset(h) = {} /\ ~CycleReachable(h)
        /\ (vres.tag # "Ok" /\ OuterErrors(orig) = {}) =>
              vres \in InnerErrors(orig)
        /\ (\A ord \in Orders(orig) :
                CheckOutputs(orig, <<>>, ord).err # NoError) =>
              vres \in OuterErrors(orig)

\* validate returned the error of a sub-graph for an outer graph whose own
\* checks pass
C24_Witness ==
    /\ Validated
    /\ OuterErrors(orig) = {}
    /\ vres.tag \in {"Cycle", "UnlinkeUnsetdGraphOutput"}
    /\ vres \in InnerErrors(orig)

\* validate returned the error of the outer graph although a sub-graph fails
\* validation too
C24_OuterPreferred ==
    /\ Validated
    /\ \A ord \in Orders(orig) : CheckOutputs(orig, <<>>, ord).err # NoError
    /\ InnerErrors(orig) # {}
    /\ vres \in OuterErrors(orig) \ InnerErrors(orig)

----------------------------------------------------------------------------
(* C25 *)

\* the graph at the end of a path of Imported node ids
RECURSIVE GraphAt(_, _)
GraphAt(g, p) ==
    IF p = <<>> THEN g ELSE GraphAt(g.nodes[p[1]].inner, Tail(p))

Front(s) == SubSeq(s, 1, Len(s) - 1)

\* the nodes the inputs of node id of g are linked to that the run has to
\* compute: the nodes with an output without a value
ToCompute(g, id) ==
    {m \in LinkedIds(g, id) \cap DOMAIN g.nodes : ~AllOutputsSet(g.nodes[m])}

\* the shader of the node at path `at`, or a shader inside its sub-graph if
\* the node is an Imported one, was invoked before the i-th invocation
InvokedBefore(at, i) ==
    \E j \in 1..(i - 1) :
        /\ Len(rlog[j]) >= Len(at)
        /\ SubSeq(rlog[j], 1, Len(at)) = at

\* C25: in the first run of a graph, the shader of a node is invoked after
\* the shader of every node its inputs are linked to, and the snapshot it is
\* given holds, for each input linked to a node, the value that output of the
\* producer holds after the run; the shaders inside the sub-graph of an
\* Imported node are invoked after the shader of every node the inputs of
\* the Imported node are linked to.
C25_ProducersRunFirst ==
    (runs = 1 /\ rres \in {"Ok", "Err"}) =>
        \A i \in 1..Len(rlog) :
            /\ \A k \in DOMAIN NodeAt(orig, rlog[i]).inputs :
                  NodeAt(orig, rlog[i]).inputs[k].ref.tag = "Node" =>
                      /\ k \in DOMAIN rins[i]
                      /\ rins[i][k] =
                            ReadRef([g |-> GraphAt(graph, Front(rlog[i]))],
                                    NodeAt(orig, rlog[i]).inputs[k].ref)
            /\ \A n \in 1..Len(rlog[i]) :
                  \A m \in ToCompute(GraphAt(orig, SubSeq(rlog[i], 1, n - 1)),
                                     rlog[i][n]) :
                      InvokedBefore(Append(SubSeq(rlog[i], 1, n - 1), m), i)

\* a run invoked the shader of a node after the shader of the node it reads
\* and gave it a value that node computed
C25_Witness ==
    /\ runs = 1 /\ rres = "Ok"
    /\ \E i \in 1..Len(rlog) :
          /\ Len(rlog[i]) = 1
          /\ ToCompute(orig, rlog[i][1]) # {}
          /\ \E k \in DOMAIN rins[i] :
                /\ NodeAt(orig, rlog[i]).inputs[k].ref.tag = "Node"
                /\ ~is_none(rins[i][k])

\* a run invoked the shaders inside the sub-graph of an Imported node after
\* those of the Imported node it reads
C25_ImportedWitness ==
    /\ runs = 1 /\ rres = "Ok"
    /\ \E i \in 1..Len(rlog) :
          /\ Len(rlog[i]) >= 2
          /\ ToCompute(orig, rlog[i][1]) # {}

----------------------------------------------------------------------------
(* C26 *)

\* C26: the snapshot given to the shader of a primitive node holds, for every
\* declared input of the node without a link, the default value of the
\* declared kind of the input.
C26_UnlinkedInputDefaulted ==
    \A i \in 1..Len(rlog) :
        \A k \in DOMAIN NodeAt(orig, rlog[i]).inputs :
            NodeAt(orig, rlog[i]).inputs[k].ref.tag = "None" =>
                /\ k \in DOMAIN rins[i]
                /\ rins[i][k] =
                      set_default(FromType(NodeAt(orig, rlog[i]).inputs[k].type))

----------------------------------------------------------------------------
(* C27 *)

\* the Imported nodes of the top graph whose sub-graph the last run has run
RanImported ==
    {id \in ImportedIds(orig) : \E i \in 1..Len(rlog) : rlog[i][1] = id}

\* C27: after a first run that returns Ok, for every Imported node whose
\* sub-graph was run: the sub-graph input of the name of each linked input
\* holds the value of the producer, the sub-graph input of the name of each
\* unlinked input holds the default of its kind, and the outputs of the node
\* are the outputs the sub-graph declares, with the values the sub-graph holds.
C27_ImportedNodeRun ==
    (runs = 1 /\ rres = "Ok") =>
        \A id \in RanImported :
            /\ \A k \in DOMAIN orig.nodes[id].inputs :
                  /\ k \in DOMAIN graph.nodes[id].inner.inputs
                  /\ graph.nodes[id].inner.inputs[k] =
                        IF orig.nodes[id].inputs[k].ref.tag = "None"
                        THEN set_default(orig.nodes[id].inner.inputs[k])
                        ELSE ReadRef([g |-> graph], orig.nodes[id].inputs[k].ref)
            /\ DOMAIN outputs(graph.nodes[id]) =
                  DOMAIN orig.nodes[id].inner.outputs
            /\ \A o \in DOMAIN outputs(graph.nodes[id]) :
                  outputs(graph.nodes[id])[o] =
                      graph.nodes[id].inner.outputs[o].value

----------------------------------------------------------------------------
(* C28 *)

\* the outputs of the map outs that run resolves (they carry no value) and
\* that are linked to a graph input without a value
LinkedToUnsetInput(g, outs) ==
    {o \in DOMAIN outs :
        /\ is_none(outs[o].value)
        /\ outs[o].ref.tag = "Graph"
        /\ outs[o].ref.name \in DOMAIN g.inputs
        /\ is_none(g.inputs[outs[o].ref.name])}

\* C28: a run of a graph with an output linked to a graph input that has no
\* value does not return Ok.
C28_UnsetInputReported ==
    (runs > 0 /\ LinkedToUnsetInput(graph, prevOut) # {}) => rres # "Ok"

----------------------------------------------------------------------------
(* C29 *)

\* the i-th shader invocation of the last run returned an error: the closure
\* reports a missing input value
FailedCall(i) ==
    /\ NodeAt(orig, rlog[i]).shader = "Strict"
    /\ \E k \in DOMAIN rins[i] : is_none(rins[i][k])

\* C29: a run in which a shader returns an error stops at that invocation
\* and returns Err(Error::Shader); after a run that returns this error the
\* outputs map of the graph is the one the run started from, and every node
\* whose shader was invoked before the failing one and writes its outputs
\* still holds a value in each of its outputs.
C29_ShaderErrorKeepsOutputs ==
    runs > 0 =>
        /\ (\E i \in 1..Len(rlog) : FailedCall(i)) =>
              /\ rres = "Err"
              /\ \A i \in 1..Len(rlog) : FailedCall(i) <=> i = Len(rlog)
        /\ rres = "Err" =>
              /\ rlog # <<>> /\ FailedCall(Len(rlog))
              /\ graph.outputs = prevOut
              /\ \A i \in 1..(Len(rlog) - 1) :
                    NodeAt(orig, rlog[i]).shader # "Noop" =>
                        AllOutputsSet(NodeAt(graph, rlog[i]))

\* a run returned the error of a shader invoked after the shader of another
\* node had computed its outputs
C29_Witness ==
    /\ rres = "Err"
    /\ Len(rlog) >= 2
    /\ AllOutputsSet(NodeAt(graph, rlog[1]))
    /\ prevOut # EmptyMap

----------------------------------------------------------------------------
(* C30 *)

\* the calls of the material in which graph.run() returned Ok
RanOk == {i \in 1..Len(mlog) : mlog[i].run = "Ok"}

\* C30: update calls graph.run() exactly when the recompute flag is true; the
\* flag is never set back to true, and it is false from the first update in
\* which the run returned Ok on, so that the graph is run successfully at
\* most once; a set_input accepted after that update writes the graph input,
\* and the outputs of the graph, and what get returns, stay those the
\* successful run left.
C30_RunOnceThenStale ==
    /\ \A i \in 1..Len(mlog) :
          mlog[i].run # "None" <=> (mlog[i].op = "update" /\ mlog[i].flag)
    /\ \A i, j \in 1..Len(mlog) :
          (i < j /\ ~mlog[i].flag) => ~mlog[j].flag
    /\ (mlog # <<>> /\ ~Last(mlog).flag) => ~recompute
    /\ Cardinality(RanOk) <= 1
    /\ \A i \in RanOk :
          /\ ~recompute
          /\ \A k \in (i + 1)..Len(mlog) :
                /\ ~mlog[k].flag
                /\ mlog[k].outputs = mlog[i].outputs
                /\ mlog[k].op = "get" =>
                      mlog[k].bundle = get(Graph(EmptyMap, mlog[i].outputs,
                                                 EmptyMap),
                                           selected_outputs)
                /\ (mlog[k].op = "set_input" /\ mlog[k].res = "Ok") =>
                      mlog[k].inputs[mlog[k].name] =
                          SocketValue("IValue", Some(7))

\* an update ran the graph, a set_input then changed the input the output is
\* computed from, and a get after it returned the value of the run
C30_Witness ==
    /\ Len(mlog) = 3
    /\ mlog[1].op = "update" /\ mlog[1].run = "Ok" /\ mlog[1].res = "Ok"
    /\ mlog[2].op = "set_input" /\ mlog[2].res = "Ok"
    /\ mlog[2].inputs # mlog[1].inputs
    /\ mlog[3].op = "get"
    /\ \E k \in StandardMaterialOutput : mlog[3].bundle[k] = Some(2)

\* an update failed with the error of a shader and left the flag true, and
\* an update after a set_input ran the graph again, with Ok
C30_RetryWitness ==
    /\ Len(mlog) = 3
    /\ mlog[1].op = "update" /\ mlog[1].run = "Err"
    /\ mlog[2].op = "set_input" /\ mlog[2].res = "Ok"
    /\ mlog[3].op = "update" /\ mlog[3].flag /\ mlog[3].run = "Ok"

====
